---- MODULE Spec2Model ----
(***************************************************************************)
(* Conversation state store (App/model/chat_memory.py) and rule-based      *)
(* dialogue policy (App/services/chatbot_service.py) of the travel         *)
(* planning backend.                                                       *)
(*                                                                         *)
(* Strings are TLA+ strings; a Python dict is a function whose domain is   *)
(* its key set; the insertion-ordered dict user_contexts is a sequence of  *)
(* [key, value] entries.  Python's None is the string None, which no       *)
(* extractor can produce (every message is lower-cased before matching).   *)
(* Time is in whole seconds since the modules were imported.               *)
(***************************************************************************)
EXTENDS Integers, Sequences, FiniteSets, TLC

VARIABLES
    now,            \* the wall clock, datetime.now()
    user_contexts,  \* ChatMemoryCache.user_contexts
    memory,         \* the ChatbotService attribute `memory`: "unset" or "cache"
    ret,            \* the outcome of the last call: operation, arguments, result
    calls,          \* number of calls made so far
    sweep,          \* the frame of a clear_expired_contexts call in progress
    environ,        \* os.environ of the process
    token,          \* AmadeusService.token
    token_expiry,   \* AmadeusService.token_expiry: <<>> for None, <<time>>
    wire,           \* the HTTP requests the last call sent, in order
    turns           \* per thread, the frame of a process_message call in progress

\* what the chat store and its sweep leave alone
io == <<environ, token, token_expiry, wire>>

vars == <<now, user_contexts, memory, ret, calls, sweep, io, turns>>

(***************************************************************************)
(* Bounds                                                                  *)
(***************************************************************************)
MaxCalls == 3
MaxCallsAll == 2
MaxClock == 86401

Users == {"u1", "u2"}

None == "None"

(***************************************************************************)
(* Python helpers                                                          *)
(***************************************************************************)
EmptyDict == [k \in {} |-> None]

\* dict.update(other): keys of other overwrite, all other keys are kept
DictUpdate(d, other) == other @@ d

\* seq[start:] with Python's treatment of a negative start
SliceFrom(seq, start) ==
    LET n == Len(seq)
        s0 == IF start < 0 THEN start + n ELSE start
        s1 == IF s0 < 0 THEN 0 ELSE IF s0 > n THEN n ELSE s0
    IN  SubSeq(seq, s1 + 1, n)

(***************************************************************************)
(* chat_memory.py                                                          *)
(***************************************************************************)
\* the class bodies of Message and UserContext evaluate datetime.now() once,
\* when the module is imported; that value is the default of every instance
ImportTime == 0

expiry_time == 3600 * 24

Message(role, content) ==
    [role |-> role, content |-> content, timestamp |-> ImportTime]

UserContext(user_id) ==
    [user_id          |-> user_id,
     messages         |-> <<>>,
     preferences      |-> EmptyDict,
     search_history   |-> [flights |-> <<>>, hotels |-> <<>>,
                           cities |-> <<>>, activities |-> <<>>],
     current_plan     |-> EmptyDict,
     last_interaction |-> ImportTime]

Keys(uc) == {uc[i].key : i \in DOMAIN uc}

IndexOf(uc, user_id) == CHOOSE i \in DOMAIN uc : uc[i].key = user_id

Lookup(uc, user_id) == uc[IndexOf(uc, user_id)].value

\* self.user_contexts[user_id] = value
SetItem(uc, user_id, value) ==
    IF user_id \in Keys(uc)
    THEN [uc EXCEPT ![IndexOf(uc, user_id)].value = value]
    ELSE Append(uc, [key |-> user_id, value |-> value])

\* del self.user_contexts[user_id]
DelItem(uc, user_id) ==
    SelectSeq(uc, LAMBDA e : e.key # user_id)

\* get_user_context without its membership test: a new context on every call
get_user_context_always_new(uc, user_id) ==
    SetItem(uc, user_id, UserContext(user_id))

\* get_user_context: the store after the call (the context is created when
\* the identifier is unknown)
get_user_context(uc, user_id) ==
    IF user_id \notin Keys(uc)
    THEN SetItem(uc, user_id, UserContext(user_id))
    ELSE uc

\* add_message with the new entry put at the front of the list
add_message_prepend(uc, user_id, role, content, t) ==
    LET uc1     == get_user_context(uc, user_id)
        context == Lookup(uc1, user_id)
    IN  SetItem(uc1, user_id,
            [context EXCEPT !.messages = <<Message(role, content)>> \o @,
                            !.last_interaction = t])

\* add_message when every context holds the same messages list, as class
\* attributes of a plain Python class would
add_message_shared(uc, user_id, role, content, t) ==
    LET uc1 == get_user_context(uc, user_id)
    IN  [i \in DOMAIN uc1 |->
            [uc1[i] EXCEPT
                !.value.messages = Append(@, Message(role, content)),
                !.value.last_interaction =
                    IF uc1[i].key = user_id THEN t ELSE @]]

add_message(uc, user_id, role, content, t) ==
    LET uc1     == get_user_context(uc, user_id)
        context == Lookup(uc1, user_id)
    IN  SetItem(uc1, user_id,
            [context EXCEPT !.messages = Append(@, Message(role, content)),
                            !.last_interaction = t])

\* get_conversation_history with messages[:limit] for messages[-limit:]
get_conversation_history_head(uc, user_id, limit) ==
    LET context == Lookup(get_user_context(uc, user_id), user_id)
    IN  IF context.messages # <<>>
        THEN SubSeq(context.messages, 1,
                    IF limit < Len(context.messages)
                    THEN limit ELSE Len(context.messages))
        ELSE <<>>

get_conversation_history(uc, user_id, limit) ==
    LET context == Lookup(get_user_context(uc, user_id), user_id)
    IN  IF context.messages # <<>>
        THEN SliceFrom(context.messages, 0 - limit)
        ELSE <<>>

\* store_search_result that opens a bucket for a type it does not hold
store_search_result_any_type(uc, user_id, search_type, result, t) ==
    LET uc1     == get_user_context(uc, user_id)
        context == Lookup(uc1, user_id)
        hist    == IF search_type \in DOMAIN context.search_history
                   THEN [context.search_history EXCEPT
                            ![search_type] = Append(@, result)]
                   ELSE (search_type :> <<result>>) @@ context.search_history
    IN  SetItem(uc1, user_id,
            [context EXCEPT !.search_history = hist,
                            !.last_interaction = t])

store_search_result(uc, user_id, search_type, result, t) ==
    LET uc1     == get_user_context(uc, user_id)
        context == Lookup(uc1, user_id)
        hist    == IF search_type \in DOMAIN context.search_history
                   THEN [context.search_history EXCEPT
                            ![search_type] = Append(@, result)]
                   ELSE context.search_history
    IN  SetItem(uc1, user_id,
            [context EXCEPT !.search_history = hist,
                            !.last_interaction = t])

update_preferences(uc, user_id, preferences, t) ==
    LET uc1     == get_user_context(uc, user_id)
        context == Lookup(uc1, user_id)
    IN  SetItem(uc1, user_id,
            [context EXCEPT !.preferences = DictUpdate(@, preferences),
                            !.last_interaction = t])

\* update_current_plan that assigns the mapping for merging it
update_current_plan_replace(uc, user_id, plan_data, t) ==
    LET uc1     == get_user_context(uc, user_id)
        context == Lookup(uc1, user_id)
    IN  SetItem(uc1, user_id,
            [context EXCEPT !.current_plan = plan_data,
                            !.last_interaction = t])

update_current_plan(uc, user_id, plan_data, t) ==
    LET uc1     == get_user_context(uc, user_id)
        context == Lookup(uc1, user_id)
    IN  SetItem(uc1, user_id,
            [context EXCEPT !.current_plan = DictUpdate(@, plan_data),
                            !.last_interaction = t])

get_current_plan(uc, user_id) ==
    Lookup(get_user_context(uc, user_id), user_id).current_plan

\* the first loop with >= for > in its test
ExpiredUsersInclusive(uc, current_time) ==
    SelectSeq([i \in DOMAIN uc |-> uc[i].key],
              LAMBDA k : current_time - Lookup(uc, k).last_interaction
                             >= expiry_time)

\* the first loop of clear_expired_contexts, run to its end in one piece
ExpiredUsers(uc, current_time) ==
    SelectSeq([i \in DOMAIN uc |-> uc[i].key],
              LAMBDA k : current_time - Lookup(uc, k).last_interaction
                             > expiry_time)

RECURSIVE DelAll(_, _)
DelAll(uc, ks) ==
    IF ks = <<>> THEN uc ELSE DelAll(DelItem(uc, Head(ks)), Tail(ks))

clear_expired_contexts(uc, current_time) ==
    DelAll(uc, ExpiredUsers(uc, current_time))

(***************************************************************************)
(* Inputs                                                                  *)
(***************************************************************************)
Messages ==
    {"Hey there!",
     "Book a flight from Boston to Rome",
     "fly from chicago to rome",
     "I want a flight to Paris",
     "flight from boston and rome",
     "fly to paris and find a hotel in rome.",
     "cities like nice in france",
     "activities in rome",
     "plan my trip",
     "what can you do"}

\* messages that say "from X to Y" after a flight keyword
FromToPhrases ==
    {[before |-> "fly ", X |-> "oslo", Y |-> "lima"],
     [before |-> "i want to fly ", X |-> "boston", Y |-> "rome"]}

FromTo(p) == p.before \o "from " \o p.X \o " to " \o p.Y

\* hotel requests that carry the city code in parentheses
CodedHotelPhrases ==
    {[message |-> "hotels in New York (NYC)", code |-> "NYC"]}

\* the messages of the turns that exercise the extractors
IntentMessages ==
    {FromTo(p) : p \in FromToPhrases}
        \cup {p.message : p \in CodedHotelPhrases}
        \cup {"cities in wakanda",
              "cities like nice in usa",
              "what can you do"}
        \cup {"cities in france",
              "things to do in rome",
              "attractions near oslo",
              "fun activity at lima?"}

\* the names _get_country_code is asked about: the three aliases of the
\* United States in several letter cases, a listed country, unlisted names
UnitedStatesNames ==
    {"usa", "USA", "America", "america", "united states", "uNiTeD sTaTeS"}

UnlistedNames == {"Wakanda", "wakanda", "us"}

CountryNames == UnitedStatesNames \cup UnlistedNames \cup {"france"}

\* the process environments: no GROQ_API_KEY, an empty one, a key
Environments ==
    {EmptyDict, [GROQ_API_KEY |-> ""], [GROQ_API_KEY |-> "gsk_live"]}

UserInputs == {"two days in rome from boston", "hello"}

EnhancePlans ==
    {[flight |-> [origin |-> "BOS", destination |-> "FCO",
                  departure_date |-> "2025-06-01"]],
     [flight |-> [origin |-> "BOS", destination |-> "FCO",
                  departure_date |-> "2025-06-01"],
      hotel  |-> [city_code |-> "ROM"]],
     [budget |-> [total_budget |-> 1500]]}

\* what the provider answers to the token request
TokenResponses ==
    {[error |-> "ConnectError", status_code |-> 0, json |-> [k \in {} |-> None]],
     [error |-> None, status_code |-> 401,
      json |-> [error |-> "invalid_client"]],
     [error |-> None, status_code |-> 200,
      json |-> [access_token |-> "tokA", expires_in |-> 1799]],
     [error |-> None, status_code |-> 200,
      json |-> [access_token |-> "tokB"]]}

\* what the provider answers to a lookup
LookupResponses ==
    {[error |-> "ConnectError", status_code |-> 0, json |-> [k \in {} |-> None]]}
    \cup {[error |-> None, status_code |-> 200, json |-> b] :
            b \in {[data |-> <<"r1", "r2">>], [data |-> <<>>],
                   [meta |-> "count 0"], [undecodable |-> TRUE]}}
    \cup {[error |-> None, status_code |-> c, json |-> [errors |-> "e"]] :
            c \in {204, 400, 401, 404, 500}}

CityCodes == {"PAR"}

\* the city codes of three characters the hotels route is asked for
RouteCityCodes == {"par", "P4R"}

Places == {[latitude |-> 41, longitude |-> 12]}

Roles == {"user", "assistant"}

Contents == {"ping"}

Limits == {0, 1, 10}

SearchTypes == {"flights", "trains"}

SearchResults == {"r1"}

PreferenceUpdates == {"budget" :> "low"}

PlanUpdates ==
    {"flight" :> [origin |-> "oslo", destination |-> "lima",
                  departure_date |-> None, return_date |-> None,
                  adults |-> 2],
     "hotel" :> [city |-> "lima", city_code |-> "LIM"]}

ClockSteps == {expiry_time, expiry_time + 1}

\* the messages of the turns that run on threads of their own
ThreadMessages == {"Hey there!", "plan my trip"}

(***************************************************************************)
(* Strings: str.lower, str.strip, the `in` test, int and str               *)
(***************************************************************************)
LowerAlphabet == "abcdefghijklmnopqrstuvwxyz"
UpperAlphabet == "ABCDEFGHIJKLMNOPQRSTUVWXYZ"
DigitAlphabet == "0123456789"

CharsOf(s) == {SubSeq(s, i, i) : i \in 1..Len(s)}

Letter     == CharsOf(LowerAlphabet) \cup CharsOf(UpperAlphabet)
Digit      == CharsOf(DigitAlphabet)
Whitespace == {" ", "\t", "\n"}
WordChar   == Letter \cup Digit \cup {"_"}

LowerChar(c) ==
    IF c \in CharsOf(UpperAlphabet)
    THEN LET i == CHOOSE j \in 1..26 : SubSeq(UpperAlphabet, j, j) = c
         IN  SubSeq(LowerAlphabet, i, i)
    ELSE c

RECURSIVE Lower(_)
Lower(s) ==
    IF s = "" THEN ""
    ELSE LowerChar(SubSeq(s, 1, 1)) \o Lower(SubSeq(s, 2, Len(s)))

Strip(s) ==
    LET keep == {i \in 1..Len(s) : SubSeq(s, i, i) \notin Whitespace}
    IN  IF keep = {} THEN ""
        ELSE SubSeq(s, CHOOSE i \in keep : \A j \in keep : i <= j,
                       CHOOSE i \in keep : \A j \in keep : i >= j)

\* sub in s
Contains(sub, s) ==
    \E i \in 1..(Len(s) - Len(sub) + 1) : SubSeq(s, i, i + Len(sub) - 1) = sub

\* where sub first occurs in x (sub occurs in x)
FirstIndex(sub, x) ==
    CHOOSE i \in 1..Len(x) :
        /\ i + Len(sub) - 1 <= Len(x)
        /\ SubSeq(x, i, i + Len(sub) - 1) = sub
        /\ \A j \in 1..(i - 1) : SubSeq(x, j, j + Len(sub) - 1) # sub

IsPrefix(a, b) == Len(a) <= Len(b) /\ SubSeq(b, 1, Len(a)) = a

DigitValue(c) == (CHOOSE j \in 1..10 : SubSeq(DigitAlphabet, j, j) = c) - 1

RECURSIVE ToInt(_)
ToInt(s) ==
    IF s = "" THEN 0
    ELSE 10 * ToInt(SubSeq(s, 1, Len(s) - 1)) + DigitValue(SubSeq(s, Len(s), Len(s)))

RECURSIVE ToStr(_)
ToStr(n) ==
    IF n < 10 THEN SubSeq(DigitAlphabet, n + 1, n + 1)
    ELSE ToStr(n \div 10) \o SubSeq(DigitAlphabet, (n % 10) + 1, (n % 10) + 1)

\* the truth value Python gives to a value that is None or a string
Truthy(x) == x # None /\ x # ""

(***************************************************************************)
(* re.search: a backtracking matcher.  A match state is the next position  *)
(* and the span of group 1; Match returns the match states of a pattern    *)
(* started at a state, in the order Python tries them (greedy repetition,  *)
(* alternatives left to right), so the head is the match Python reports.   *)
(***************************************************************************)
Lit(x)         == [t |-> "lit", s |-> x]
Cls(c)         == [t |-> "cls", c |-> c]
Cat(rs)        == [t |-> "cat", rs |-> rs]
Alt(rs)        == [t |-> "alt", rs |-> rs]
Rep(r, lo, hi) == [t |-> "rep", r |-> r, lo |-> lo, hi |-> hi]
Plus(r)        == Rep(r, 1, -1)
Opt(r)         == Rep(r, 0, 1)
Grp(r)         == [t |-> "grp", r |-> r]
EndOfString    == [t |-> "end"]

RECURSIVE Match(_, _, _)
RECURSIVE MatchCat(_, _, _, _)
RECURSIVE BindCat(_, _, _, _)
RECURSIVE MatchAlt(_, _, _, _)
RECURSIVE MatchRep(_, _, _, _, _)
RECURSIVE BindRep(_, _, _, _, _)

Match(r, s, st) ==
    CASE r.t = "lit" ->
            IF /\ st.p + Len(r.s) - 1 <= Len(s)
               /\ SubSeq(s, st.p, st.p + Len(r.s) - 1) = r.s
            THEN <<[st EXCEPT !.p = @ + Len(r.s)]>>
            ELSE <<>>
      [] r.t = "cls" ->
            IF st.p <= Len(s) /\ SubSeq(s, st.p, st.p) \in r.c
            THEN <<[st EXCEPT !.p = @ + 1]>>
            ELSE <<>>
      [] r.t = "end" -> IF st.p = Len(s) + 1 THEN <<st>> ELSE <<>>
      [] r.t = "cat" -> MatchCat(r.rs, 1, s, st)
      [] r.t = "alt" -> MatchAlt(r.rs, 1, s, st)
      [] r.t = "rep" -> MatchRep(r.r, r.lo, r.hi, s, st)
      [] r.t = "grp" ->
            LET ms == Match(r.r, s, st)
            IN  [i \in DOMAIN ms |-> [ms[i] EXCEPT !.g = <<st.p, ms[i].p - 1>>]]

MatchCat(rs, k, s, st) ==
    IF k > Len(rs) THEN <<st>>
    ELSE BindCat(Match(rs[k], s, st), rs, k + 1, s)

BindCat(sts, rs, k, s) ==
    IF sts = <<>> THEN <<>>
    ELSE MatchCat(rs, k, s, Head(sts)) \o BindCat(Tail(sts), rs, k, s)

MatchAlt(rs, k, s, st) ==
    IF k > Len(rs) THEN <<>>
    ELSE Match(rs[k], s, st) \o MatchAlt(rs, k + 1, s, st)

MatchRep(r, lo, hi, s, st) ==
    LET once == IF hi = 0 THEN <<>>
                ELSE SelectSeq(Match(r, s, st), LAMBDA m : m.p > st.p)
        more == BindRep(once, r, lo - 1, IF hi > 0 THEN hi - 1 ELSE hi, s)
    IN  more \o (IF lo <= 0 THEN <<st>> ELSE <<>>)

BindRep(sts, r, lo, hi, s) ==
    IF sts = <<>> THEN <<>>
    ELSE MatchRep(r, lo, hi, s, Head(sts)) \o BindRep(Tail(sts), r, lo, hi, s)

MatchAt(r, s, i) == Match(r, s, [p |-> i, g |-> <<>>])

\* re.search(r, s): the leftmost match, None when there is none
Search(r, s) ==
    LET starts == {i \in 1..(Len(s) + 1) : MatchAt(r, s, i) # <<>>}
    IN  IF starts = {} THEN [matched |-> FALSE]
        ELSE LET i == CHOOSE j \in starts : \A k \in starts : j <= k
                 m == Head(MatchAt(r, s, i))
             IN  [matched |-> TRUE, start |-> i, end |-> m.p - 1, g |-> m.g]

\* match.group(1)
Group1(s, m) == SubSeq(s, m.g[1], m.g[2])

(***************************************************************************)
(* chatbot_service.py: the intent extractors                               *)
(***************************************************************************)
Space       == Cls(Whitespace)
LetterSpace == Cls(Letter \cup Whitespace)

\* r"from\s+([a-zA-Z\s]+)(?:\s+to|\s+and)"
origin_re ==
    Cat(<<Lit("from"), Plus(Space), Grp(Plus(LetterSpace)),
          Alt(<<Cat(<<Plus(Space), Lit("to")>>),
                Cat(<<Plus(Space), Lit("and")>>)>>)>>)

\* r"to\s+([a-zA-Z\s]+)"
dest_re == Cat(<<Lit("to"), Plus(Space), Grp(Plus(LetterSpace))>>)

\* r"(\d{1,2}(?:st|nd|rd|th)?\s+\w+(?:\s+\d{4})?)"
date_re ==
    Grp(Cat(<<Rep(Cls(Digit), 1, 2),
              Opt(Alt(<<Lit("st"), Lit("nd"), Lit("rd"), Lit("th")>>)),
              Plus(Space), Plus(Cls(WordChar)),
              Opt(Cat(<<Plus(Space), Rep(Cls(Digit), 4, 4)>>))>>))

\* r"(?:on|departing|leaving)(?:\s+on)?\s+" followed by the date
departure_re ==
    Cat(<<Alt(<<Lit("on"), Lit("departing"), Lit("leaving")>>),
          Opt(Cat(<<Plus(Space), Lit("on")>>)), Plus(Space), date_re>>)

\* r"(?:return|returning|coming back)(?:\s+on)?\s+" followed by the date
return_re ==
    Cat(<<Alt(<<Lit("return"), Lit("returning"), Lit("coming back")>>),
          Opt(Cat(<<Plus(Space), Lit("on")>>)), Plus(Space), date_re>>)

\* r"(\d+)\s+(?:adult|adults|people|passengers)"
adults_re ==
    Cat(<<Grp(Plus(Cls(Digit))), Plus(Space),
          Alt(<<Lit("adult"), Lit("adults"), Lit("people"),
                Lit("passengers")>>)>>)

\* r"(?:in|at)\s+([a-zA-Z\s]+)(?:$|\.|\?|,|\s+for)"
hotel_city_re ==
    Cat(<<Alt(<<Lit("in"), Lit("at")>>), Plus(Space), Grp(Plus(LetterSpace)),
          Alt(<<EndOfString, Lit("."), Lit("?"), Lit(","),
                Cat(<<Plus(Space), Lit("for")>>)>>)>>)

\* r"\(([A-Z]{3})\)"
city_code_re ==
    Cat(<<Lit("("), Grp(Rep(Cls(CharsOf(UpperAlphabet)), 3, 3)), Lit(")")>>)

\* r"(?:in|within)\s+([a-zA-Z\s]+)(?:$|\.|\?|,)"
country_re ==
    Cat(<<Alt(<<Lit("in"), Lit("within")>>), Plus(Space),
          Grp(Plus(LetterSpace)),
          Alt(<<EndOfString, Lit("."), Lit("?"), Lit(",")>>)>>)

\* r"(?:like|named|called)\s+([a-zA-Z\s]+)(?:$|\.|\?|,|\s+in)"
keyword_re ==
    Cat(<<Alt(<<Lit("like"), Lit("named"), Lit("called")>>), Plus(Space),
          Grp(Plus(LetterSpace)),
          Alt(<<EndOfString, Lit("."), Lit("?"), Lit(","),
                Cat(<<Plus(Space), Lit("in")>>)>>)>>)

\* r"(?:in|at|near|around)\s+([a-zA-Z\s]+)(?:$|\.|\?|,)"
location_re ==
    Cat(<<Alt(<<Lit("in"), Lit("at"), Lit("near"), Lit("around")>>),
          Plus(Space), Grp(Plus(LetterSpace)),
          Alt(<<EndOfString, Lit("."), Lit("?"), Lit(",")>>)>>)

\* an extractor returns None or a dict: a dict is a record of its keys and
\* the None result is the record NoInfo, which has none of them
NoInfo    == [none |-> TRUE]
IsNone(x) == x = NoInfo

_is_greeting(message) ==
    \E greeting \in {"hello", "hi", "hey", "greetings", "good morning",
                     "good afternoon", "good evening"} :
        Contains(greeting, message)

\* _extract_flight_info that gives up only when both phrases are missing
\* and otherwise returns what it found
_extract_flight_info_partial(message) ==
    IF ~Contains("flight", message) /\ ~Contains("fly", message) THEN NoInfo
    ELSE
    LET origin_match == Search(origin_re, message)
        dest_match   == Search(dest_re, message)
    IN  IF ~origin_match.matched /\ ~dest_match.matched THEN NoInfo
        ELSE [origin         |-> IF origin_match.matched
                                 THEN Strip(Group1(message, origin_match))
                                 ELSE None,
              destination    |-> IF dest_match.matched
                                 THEN Strip(Group1(message, dest_match))
                                 ELSE None,
              departure_date |-> None,
              return_date    |-> None,
              adults         |-> 1]

_extract_flight_info(message) ==
    IF ~Contains("flight", message) /\ ~Contains("fly", message) THEN NoInfo
    ELSE
    LET origin_match == Search(origin_re, message)
        dest_match   == Search(dest_re, message)
    IN  IF ~origin_match.matched \/ ~dest_match.matched THEN NoInfo
        ELSE
        LET departure_match == Search(departure_re, message)
            return_match    == Search(return_re, message)
            adults_match    == Search(adults_re, message)
        IN  [origin         |-> Strip(Group1(message, origin_match)),
             destination    |-> Strip(Group1(message, dest_match)),
             departure_date |-> IF departure_match.matched
                                THEN Group1(message, departure_match)
                                ELSE None,
             return_date    |-> IF return_match.matched
                                THEN Group1(message, return_match)
                                ELSE None,
             adults         |-> IF adults_match.matched
                                THEN ToInt(Group1(message, adults_match))
                                ELSE 1]

_extract_hotel_info(message) ==
    IF /\ ~Contains("hotel", message)
       /\ ~Contains("accommodation", message)
       /\ ~Contains("stay", message)
    THEN NoInfo
    ELSE
    LET city_match == Search(hotel_city_re, message)
    IN  IF ~city_match.matched THEN NoInfo
        ELSE
        LET city            == Strip(Group1(message, city_match))
            city_code_match == Search(city_code_re, city)
        IN  [city      |-> city,
             city_code |-> IF city_code_match.matched
                           THEN Group1(city, city_code_match)
                           ELSE None]

_extract_city_info(message) ==
    IF /\ ~Contains("city", message)
       /\ ~Contains("cities", message)
       /\ ~Contains("places", message)
    THEN NoInfo
    ELSE
    LET country_match == Search(country_re, message)
    IN  IF ~country_match.matched THEN NoInfo
        ELSE
        LET keyword_match == Search(keyword_re, message)
        IN  [country |-> Strip(Group1(message, country_match)),
             keyword |-> IF keyword_match.matched
                         THEN Strip(Group1(message, keyword_match))
                         ELSE None]

_extract_activity_info(message) ==
    IF /\ ~Contains("activity", message)
       /\ ~Contains("activities", message)
       /\ ~Contains("things to do", message)
       /\ ~Contains("attractions", message)
    THEN NoInfo
    ELSE
    LET location_match == Search(location_re, message)
    IN  IF ~location_match.matched THEN NoInfo
        ELSE [location |-> Strip(Group1(message, location_match))]

(***************************************************************************)
(* chatbot_service.py: the handlers.  A handler takes the store and the    *)
(* time and yields the store after it and the reply.                       *)
(***************************************************************************)
country_mapping ==
    "united states" :> "US" @@ "usa" :> "US" @@ "america" :> "US" @@
    "united kingdom" :> "GB" @@ "uk" :> "GB" @@ "france" :> "FR" @@
    "germany" :> "DE" @@ "italy" :> "IT" @@ "spain" :> "ES" @@
    "japan" :> "JP" @@ "china" :> "CN" @@ "india" :> "IN" @@
    "australia" :> "AU" @@ "canada" :> "CA" @@ "brazil" :> "BR" @@
    "mexico" :> "MX" @@ "russia" :> "RU" @@ "south korea" :> "KR" @@
    "korea" :> "KR" @@ "netherlands" :> "NL" @@ "sweden" :> "SE" @@
    "norway" :> "NO" @@ "denmark" :> "DK" @@ "finland" :> "FI" @@
    "singapore" :> "SG" @@ "thailand" :> "TH" @@ "indonesia" :> "ID" @@
    "malaysia" :> "MY" @@ "vietnam" :> "VN" @@ "turkey" :> "TR" @@
    "egypt" :> "EG" @@ "south africa" :> "ZA" @@ "nigeria" :> "NG" @@
    "kenya" :> "KE" @@ "morocco" :> "MA" @@
    "united arab emirates" :> "AE" @@ "uae" :> "AE" @@ "dubai" :> "AE" @@
    "saudi arabia" :> "SA" @@ "qatar" :> "QA" @@ "new zealand" :> "NZ" @@
    "argentina" :> "AR" @@ "chile" :> "CL" @@ "colombia" :> "CO" @@
    "peru" :> "PE" @@ "portugal" :> "PT" @@ "greece" :> "GR" @@
    "switzerland" :> "CH" @@ "austria" :> "AT" @@ "belgium" :> "BE" @@
    "ireland" :> "IE" @@ "poland" :> "PL" @@ "czech republic" :> "CZ" @@
    "czechia" :> "CZ" @@ "hungary" :> "HU"

\* _get_country_code without .lower()
_get_country_code_exact(country_name) ==
    IF country_name \in DOMAIN country_mapping
    THEN country_mapping[country_name]
    ELSE None

_get_country_code(country_name) ==
    LET name == Lower(country_name)
    IN  IF name \in DOMAIN country_mapping THEN country_mapping[name] ELSE None

FirstGreeting ==
    "Hello! I'm your travel planning assistant. I can help you search for flights, "
    \o "hotels, cities, and activities to create a perfect tour plan. What destination are you interested in?"

GreetingAgain == "Hello again! How can I continue helping with your travel plans?"

DefaultResponse ==
    "I can help you search for flights, hotels, cities, and activities to plan your tour. What would you like to know?"

NotEnoughInformation ==
    "I don't have enough information to create a tour plan yet. Let's start by discussing your destination preferences."

\* _get_greeting_response with the first-time text up to three stored messages
_get_greeting_response_upto_three(context) ==
    IF context.messages = <<>> \/ Len(context.messages) <= 3
    THEN FirstGreeting
    ELSE GreetingAgain

_get_greeting_response(context) ==
    IF context.messages = <<>> \/ Len(context.messages) <= 2
    THEN FirstGreeting
    ELSE GreetingAgain

\* plan = self.memory.get_current_plan(user_id); plan[section] = value:
\* the dict the store holds is written in place, last_interaction is not
PlanSetItem(uc, user_id, section, value) ==
    LET uc1     == get_user_context(uc, user_id)
        context == Lookup(uc1, user_id)
    IN  SetItem(uc1, user_id,
            [context EXCEPT !.current_plan = (section :> value) @@ @])

\* the three lines every storing handler shares: read the plan, set one
\* section of it, hand the (same) dict to update_current_plan
StoreSection(uc, user_id, section, value, t) ==
    LET uc1 == PlanSetItem(uc, user_id, section, value)
    IN  update_current_plan(uc1, user_id, get_current_plan(uc1, user_id), t)

\* the preferences a user holds
PreferencesNow(uc, user_id) ==
    Lookup(get_user_context(uc, user_id), user_id).preferences

\* _handle_flight_search that keeps flight_preferences once they are set
_handle_flight_search_merge_preferences(uc, user_id, flight_info, t) ==
    LET uc1 == update_preferences(uc, user_id,
                   "flight_preferences" :>
                        (IF "flight_preferences"
                              \in DOMAIN PreferencesNow(uc, user_id)
                         THEN PreferencesNow(uc, user_id)["flight_preferences"]
                         ELSE flight_info), t)
        origin      == flight_info.origin
        destination == flight_info.destination
        flight == [origin         |-> origin,
                   destination    |-> destination,
                   departure_date |-> flight_info.departure_date,
                   return_date    |-> flight_info.return_date,
                   adults         |-> flight_info.adults]
    IN  [uc       |-> StoreSection(uc1, user_id, "flight", flight, t),
         response |->
            "I've noted your flight search from " \o origin \o " to "
            \o destination \o ". "
            \o "When I have more details about your trip, I'll help you find the best flights. "
            \o "Would you like to search for hotels in " \o destination
            \o " as well?"]

_handle_flight_search(uc, user_id, flight_info, t) ==
    LET uc1 == update_preferences(uc, user_id,
                   "flight_preferences" :> flight_info, t)
        origin      == flight_info.origin
        destination == flight_info.destination
        flight == [origin         |-> origin,
                   destination    |-> destination,
                   departure_date |-> flight_info.departure_date,
                   return_date    |-> flight_info.return_date,
                   adults         |-> flight_info.adults]
    IN  [uc       |-> StoreSection(uc1, user_id, "flight", flight, t),
         response |->
            "I've noted your flight search from " \o origin \o " to "
            \o destination \o ". "
            \o "When I have more details about your trip, I'll help you find the best flights. "
            \o "Would you like to search for hotels in " \o destination
            \o " as well?"]

\* _handle_hotel_search that writes the section before asking for the code
_handle_hotel_search_store_first(uc, user_id, hotel_info, t) ==
    [uc       |-> StoreSection(uc, user_id, "hotel",
                     [city      |-> hotel_info.city,
                      city_code |-> hotel_info.city_code], t),
     response |->
        "I need a city code to search for hotels in " \o hotel_info.city
        \o ". Could you provide the 3-letter IATA code for "
        \o hotel_info.city \o "? For example, NYC for New York City."]

_handle_hotel_search(uc, user_id, hotel_info, t) ==
    LET city      == hotel_info.city
        city_code == hotel_info.city_code
    IN  IF ~Truthy(city_code)
        THEN [uc       |-> uc,
              response |->
                "I need a city code to search for hotels in " \o city \o ". "
                \o "Could you provide the 3-letter IATA code for " \o city
                \o "? For example, NYC for New York City."]
        ELSE [uc       |-> StoreSection(uc, user_id, "hotel",
                               [city |-> city, city_code |-> city_code], t),
              response |->
                "I've noted your interest in hotels in " \o city \o " ("
                \o city_code \o "). "
                \o "Would you like to know about activities in " \o city
                \o " as well?"]

\* _handle_city_search that writes the section before asking for the keyword
_handle_city_search_store_first(uc, user_id, city_info, t) ==
    LET country      == city_info.country
        keyword      == city_info.keyword
        country_code == _get_country_code(country)
    IN  IF ~Truthy(country_code)
        THEN [uc       |-> uc,
              response |->
                "I need a country code to search for cities in " \o country
                \o ". " \o "Could you provide the 2-letter ISO code for "
                \o country \o "? For example, US for United States."]
        ELSE IF ~Truthy(keyword)
        THEN [uc       |-> StoreSection(uc, user_id, "city_search",
                               [country      |-> country,
                                country_code |-> country_code,
                                keyword      |-> keyword], t),
              response |-> "What kind of cities are you looking for in "
                           \o country \o "?"]
        ELSE [uc       |-> StoreSection(uc, user_id, "city_search",
                               [country      |-> country,
                                country_code |-> country_code,
                                keyword      |-> keyword], t),
              response |->
                "I've noted your interest in cities like '" \o keyword
                \o "' in " \o country \o ". "
                \o "This will help me suggest destinations for your tour plan."]

_handle_city_search(uc, user_id, city_info, t) ==
    LET country      == city_info.country
        keyword      == city_info.keyword
        country_code == _get_country_code(country)
    IN  IF ~Truthy(country_code)
        THEN [uc       |-> uc,
              response |->
                "I need a country code to search for cities in " \o country
                \o ". " \o "Could you provide the 2-letter ISO code for "
                \o country \o "? For example, US for United States."]
        ELSE IF ~Truthy(keyword)
        THEN [uc       |-> uc,
              response |-> "What kind of cities are you looking for in "
                           \o country \o "?"]
        ELSE [uc       |-> StoreSection(uc, user_id, "city_search",
                               [country      |-> country,
                                country_code |-> country_code,
                                keyword      |-> keyword], t),
              response |->
                "I've noted your interest in cities like '" \o keyword
                \o "' in " \o country \o ". "
                \o "This will help me suggest destinations for your tour plan."]

_handle_activity_search(uc, user_id, activity_info, t) ==
    LET location == activity_info.location
    IN  [uc       |-> StoreSection(uc, user_id, "activities",
                          [location |-> location], t),
         response |->
            "I've noted your interest in activities in " \o location \o ". "
            \o "When we finalize your destination, I'll help you find exciting things to do there."]

RECURSIVE Join(_, _)
Join(sep, parts) ==
    IF parts = <<>> THEN ""
    ELSE IF Len(parts) = 1 THEN parts[1]
    ELSE parts[1] \o sep \o Join(sep, Tail(parts))

\* _generate_tour_plan with the hotel line appended before the flight lines
_generate_tour_plan_hotel_first(uc, user_id) ==
    LET uc1  == get_user_context(uc, user_id)
        plan == get_current_plan(uc, user_id)
        flight_parts ==
            IF "flight" \in DOMAIN plan
            THEN LET flight == plan["flight"]
                 IN  <<"Flight: From " \o flight.origin \o " to "
                         \o flight.destination \o "\n"
                         \o "   Departure: " \o flight.departure_date>>
                     \o (IF Truthy(flight.return_date)
                         THEN <<"   Return: " \o flight.return_date>>
                         ELSE <<>>)
                     \o <<"   Passengers: " \o ToStr(flight.adults)
                            \o " adult(s)">>
            ELSE <<>>
        hotel_parts ==
            IF "hotel" \in DOMAIN plan
            THEN <<"Accommodation: Hotels in " \o plan["hotel"].city \o " ("
                     \o plan["hotel"].city_code \o ")">>
            ELSE <<>>
        activity_parts ==
            IF "activities" \in DOMAIN plan
            THEN <<"Activities: Exploring attractions in "
                     \o plan["activities"].location>>
            ELSE <<>>
    IN  IF DOMAIN plan = {}
        THEN [uc |-> uc1, response |-> NotEnoughInformation]
        ELSE [uc |-> uc1,
              response |-> Join("\n",
                <<"Here's a summary of your tour plan based on our conversation:">>
                \o hotel_parts \o flight_parts \o activity_parts
                \o <<"\nWould you like me to help you search for specific flights, hotels, or activities based on this plan?">>)]

\* the pictographs that open the three section lines are left out: the
\* section lines are told apart by the words that follow them
_generate_tour_plan(uc, user_id) ==
    LET uc1  == get_user_context(uc, user_id)
        plan == get_current_plan(uc, user_id)
        flight_parts ==
            IF "flight" \in DOMAIN plan
            THEN LET flight == plan["flight"]
                 IN  <<"Flight: From " \o flight.origin \o " to "
                         \o flight.destination \o "\n"
                         \o "   Departure: " \o flight.departure_date>>
                     \o (IF Truthy(flight.return_date)
                         THEN <<"   Return: " \o flight.return_date>>
                         ELSE <<>>)
                     \o <<"   Passengers: " \o ToStr(flight.adults)
                            \o " adult(s)">>
            ELSE <<>>
        hotel_parts ==
            IF "hotel" \in DOMAIN plan
            THEN <<"Accommodation: Hotels in " \o plan["hotel"].city \o " ("
                     \o plan["hotel"].city_code \o ")">>
            ELSE <<>>
        activity_parts ==
            IF "activities" \in DOMAIN plan
            THEN <<"Activities: Exploring attractions in "
                     \o plan["activities"].location>>
            ELSE <<>>
    IN  IF DOMAIN plan = {}
        THEN [uc |-> uc1, response |-> NotEnoughInformation]
        ELSE [uc |-> uc1,
              response |-> Join("\n",
                <<"Here's a summary of your tour plan based on our conversation:">>
                \o flight_parts \o hotel_parts \o activity_parts
                \o <<"\nWould you like me to help you search for specific flights, hotels, or activities based on this plan?">>)]

\* the tests of _generate_response with the flight test moved to the front
BranchFlightFirst(message) ==
    IF ~IsNone(_extract_flight_info(message)) THEN "flight"
    ELSE IF _is_greeting(message) THEN "greeting"
    ELSE IF ~IsNone(_extract_hotel_info(message)) THEN "hotel"
    ELSE IF ~IsNone(_extract_city_info(message)) THEN "city"
    ELSE IF ~IsNone(_extract_activity_info(message)) THEN "activity"
    ELSE IF /\ Contains("plan", message)
            /\ \/ Contains("tour", message)
               \/ Contains("trip", message)
               \/ Contains("vacation", message)
         THEN "plan"
    ELSE "default"

\* the branch of _generate_response a message takes, in the order of its
\* tests; each later test is reached only when the ones before it failed
Branch(message) ==
    IF _is_greeting(message) THEN "greeting"
    ELSE IF ~IsNone(_extract_flight_info(message)) THEN "flight"
    ELSE IF ~IsNone(_extract_hotel_info(message)) THEN "hotel"
    ELSE IF ~IsNone(_extract_city_info(message)) THEN "city"
    ELSE IF ~IsNone(_extract_activity_info(message)) THEN "activity"
    ELSE IF /\ Contains("plan", message)
            /\ \/ Contains("tour", message)
               \/ Contains("trip", message)
               \/ Contains("vacation", message)
         THEN "plan"
    ELSE "default"

\* what _generate_response computes from a message alone, tabulated over
\* the messages of the model: message.lower().strip(), the branch, and the
\* value each extractor returns for it
Parsed ==
    [raw \in Messages \cup IntentMessages |->
        LET message == Strip(Lower(raw))
        IN  [message       |-> message,
             branch        |-> Branch(message),
             flight_info   |-> _extract_flight_info(message),
             hotel_info    |-> _extract_hotel_info(message),
             city_info     |-> _extract_city_info(message),
             activity_info |-> _extract_activity_info(message)]]

\* the branch of _generate_response taken for the parsed message, on the
\* store uc1 that get_user_context left
Respond(uc1, user_id, parsed, t) ==
    CASE parsed.branch = "greeting" ->
            [uc       |-> uc1,
             response |-> _get_greeting_response(Lookup(uc1, user_id))]
      [] parsed.branch = "flight" ->
            _handle_flight_search(uc1, user_id, parsed.flight_info, t)
      [] parsed.branch = "hotel" ->
            _handle_hotel_search(uc1, user_id, parsed.hotel_info, t)
      [] parsed.branch = "city" ->
            _handle_city_search(uc1, user_id, parsed.city_info, t)
      [] parsed.branch = "activity" ->
            _handle_activity_search(uc1, user_id, parsed.activity_info, t)
      [] parsed.branch = "plan" -> _generate_tour_plan(uc1, user_id)
      [] OTHER -> [uc |-> uc1, response |-> DefaultResponse]

_generate_response(uc, user_id, raw_message, t) ==
    Respond(get_user_context(uc, user_id), user_id, Parsed[raw_message], t)
        @@ [branch |-> Parsed[raw_message].branch]

\* process_message without the second add_message
process_message_drop_reply(uc, user_id, message, t) ==
    _generate_response(add_message(uc, user_id, "user", message, t),
                       user_id, message, t)

\* the second half of process_message: the response is appended and returned
Reply(gen, user_id, t) ==
    [gen EXCEPT !.uc = add_message(@, user_id, "assistant", gen.response, t)]

\* process_message on a service whose memory attribute is the store
process_message(uc, user_id, message, t) ==
    Reply(_generate_response(add_message(uc, user_id, "user", message, t),
                             user_id, message, t),
          user_id, t)

(***************************************************************************)
(* The state machine                                                       *)
(***************************************************************************)
(***************************************************************************)
(* The two calls of the language-model gateway.  The result of a Python    *)
(* expression is a record: raised is the exception it ended with (None     *)
(* when it returned) and value is what it returned.  The operators below   *)
(* take such results, so an exception raised by an inner expression passes *)
(* through the outer ones as it does in Python.                            *)
(***************************************************************************)
Return(v) == [raised |-> None, value |-> v]
Raise(e)  == [raised |-> e, value |-> None]

\* os.getenv(name)
getenv(env, name) == IF name \in DOMAIN env THEN env[name] ELSE None

\* d.get(key, default)
Get(d, key, default) == IF key \in DOMAIN d THEN d[key] ELSE default

\* the pieces of s between the occurrences of a separator that is not empty
RECURSIVE Pieces(_, _)
Pieces(s, sep) ==
    IF ~Contains(sep, s) THEN <<s>>
    ELSE <<SubSeq(s, 1, FirstIndex(sep, s) - 1)>>
            \o Pieces(SubSeq(s, FirstIndex(sep, s) + Len(sep), Len(s)), sep)

\* r.split(sep)
split(r, sep) ==
    IF r.raised # None THEN r
    ELSE IF sep = "" THEN Raise("ValueError")
    ELSE Return(Pieces(r.value, sep))

\* r[i], i counted from 0
Item(r, i) ==
    IF r.raised # None THEN r
    ELSE IF i + 1 > Len(r.value) THEN Raise("IndexError")
    ELSE Return(r.value[i + 1])

\* r.strip()
strip(r) ==
    IF r.raised # None THEN r
    ELSE IF r.value = None THEN Raise("AttributeError")
    ELSE Return(Strip(r.value))

\* the documents json.loads decodes among the texts the model hands to it;
\* a decoded value carries its JSON type
PlainDocument ==
    "{\"summary\": \"Two days in Rome\", \"itinerary\": [{\"day\": 1}]}"

EmptyDocument == "{}"

ArrayDocument == "[1, 2]"

\* the documents a request hands to the plan routes as plan_data
FlightDocument == "{\"flight\": {\"origin\": \"BOS\", \"destination\": \"FCO\"}}"

BudgetDocument == "{\"budget\": {\"total_budget\": 1500}}"

HotelDocument == "{\"hotel\": {\"city_code\": \"ROM\"}}"

NamesDocument == "[\"flight\"]"

TextDocument == "\"a flight to rome\""

NumberDocument == "5"

NullDocument == "null"

JsonDocuments ==
    (PlainDocument :>
        [t |-> "object",
         v |-> [summary |-> "Two days in Rome",
                itinerary |-> <<[day |-> 1]>>]])
    @@ (EmptyDocument :> [t |-> "object", v |-> EmptyDict])
    @@ (ArrayDocument :> [t |-> "array", v |-> <<1, 2>>])
    @@ (FlightDocument :>
            [t |-> "object",
             v |-> [flight |-> [origin |-> "BOS", destination |-> "FCO"]]])
    @@ (BudgetDocument :>
            [t |-> "object", v |-> [budget |-> [total_budget |-> 1500]]])
    @@ (HotelDocument :>
            [t |-> "object", v |-> [hotel |-> [city_code |-> "ROM"]]])
    @@ (NamesDocument :> [t |-> "array", v |-> <<"flight">>])
    @@ (TextDocument :> [t |-> "string", v |-> "a flight to rome"])
    @@ (NumberDocument :> [t |-> "number", v |-> 5])
    @@ (NullDocument :> [t |-> "null", v |-> None])

\* json.loads(r)
json_loads(r) ==
    IF r.raised # None THEN r
    ELSE IF r.value \in DOMAIN JsonDocuments
    THEN Return(JsonDocuments[r.value])
    ELSE Raise("JSONDecodeError")

\* r.get(key, default) on a decoded value
get(r, key, default) ==
    IF r.raised # None THEN r
    ELSE IF r.value.t # "object" THEN Raise("AttributeError")
    ELSE Return(Get(r.value.v, key, default))

\* the plan_data strings of the requests
PlanData ==
    {FlightDocument, BudgetDocument, HotelDocument, EmptyDocument,
     NamesDocument, TextDocument, NumberDocument, NullDocument,
     "flight to rome"}

\* the document announced by the label of its format
LabelledDocument == "json\n" \o PlainDocument

\* what the gateway answers: the decodable documents, bare and labelled, and
\* texts that are no document
GatewayContents ==
    {PlainDocument, LabelledDocument, EmptyDocument, ArrayDocument,
     "Sorry, I cannot help with that.", "Here is the json you asked for"}

\* chat.completions.create raises, or returns a completion whose content is
\* a text or None
Completions ==
    {[raised |-> "APIConnectionError", content |-> None]}
        \cup {[raised |-> None, content |-> c] :
                c \in GatewayContents \cup {None}}

\* the two tests that follow the strip and the expressions they guard, with
\* the string literals of the source: "" for both tests, "json" for the
\* first separator and "" for the other three
CleanUp(r) ==
    IF r.raised # None THEN r
    ELSE IF Contains("", r.value)
    THEN strip(Item(split(Item(split(r, "json"), 1), ""), 0))
    ELSE IF Contains("", r.value)
    THEN strip(Item(split(Item(split(r, ""), 1), ""), 0))
    ELSE r

\* the exceptions the except clause of both calls names
Caught == {"JSONDecodeError", "IndexError", "AttributeError"}

FailedToParse == "Exception: Failed to parse LLM response"

FailedToParseEnhanced ==
    "Exception: Failed to parse LLM response for enhanced plan"

MissingKey == "ValueError: GROQ_API_KEY environment variable is not set"

\* ChatbotService.__init__ as get_chatbot_service() runs it for a request
get_chatbot_service(env) ==
    IF ~Truthy(getenv(env, "GROQ_API_KEY"))
    THEN Raise(MissingKey)
    ELSE Return([groq_api_key |-> getenv(env, "GROQ_API_KEY"),
                 model |-> "llama3-70b-8192"])

\* the chat completion request of process_natural_language
ExtractionRequest(service, user_input) ==
    [to |-> "groq", method |-> "POST", model |-> service.model,
     temperature |-> "0.1", max_tokens |-> 1000, about |-> user_input]

\* the values of the plan the prompt of enhance_tour_plan quotes
EnhancePrompt(plan) ==
    [origin         |-> Get(Get(plan, "flight", EmptyDict), "origin", "N/A"),
     destination    |-> Get(Get(plan, "flight", EmptyDict), "destination", "N/A"),
     departure_date |-> Get(Get(plan, "flight", EmptyDict), "departure_date", "N/A"),
     city_code      |-> Get(Get(plan, "hotel", EmptyDict), "city_code", "N/A"),
     check_in_date  |-> Get(Get(plan, "hotel", EmptyDict), "check_in_date", "N/A"),
     check_out_date |-> Get(Get(plan, "hotel", EmptyDict), "check_out_date", "N/A"),
     interests      |-> Join(", ", Get(Get(plan, "activities", EmptyDict),
                                       "interests", <<"general sightseeing">>))]

\* the chat completion request of enhance_tour_plan
EnhanceRequest(service, plan) ==
    [to |-> "groq", method |-> "POST", model |-> service.model,
     temperature |-> "0.7", max_tokens |-> 2000, about |-> EnhancePrompt(plan)]

\* the try block of process_natural_language run on the content of the
\* completion, and its except clause
Extracted(r) ==
    IF r.raised \in Caught THEN Raise(FailedToParse) ELSE r

process_natural_language(user_input, completion) ==
    IF completion.raised # None THEN Raise(completion.raised)
    ELSE Extracted(json_loads(CleanUp(strip(Return(completion.content)))))

\* plan["summary"] = ...; plan["itinerary"] = ...; return plan -- the
\* mapping passed in is written in place, summary first
Merged(plan, summary, itinerary) ==
    IF summary.raised # None
    THEN [raised |-> summary.raised, value |-> None, plan |-> plan]
    ELSE IF itinerary.raised # None
    THEN [raised |-> itinerary.raised, value |-> None,
          plan |-> ("summary" :> summary.value) @@ plan]
    ELSE [raised |-> None,
          value |-> ("summary" :> summary.value)
                        @@ ("itinerary" :> itinerary.value) @@ plan,
          plan  |-> ("summary" :> summary.value)
                        @@ ("itinerary" :> itinerary.value) @@ plan]

\* the except clause of enhance_tour_plan
Enhanced(out) ==
    IF out.raised \in Caught
    THEN [out EXCEPT !.raised = FailedToParseEnhanced]
    ELSE out

\* enhanced_data = json.loads(enhanced_plan) and the two assignments
MergeEnhanced(plan, enhanced_data) ==
    Merged(plan, get(enhanced_data, "summary", ""),
                 get(enhanced_data, "itinerary", <<>>))

\* the result holds the plan mapping as the call leaves it
enhance_tour_plan(plan, completion) ==
    IF completion.raised # None
    THEN [raised |-> completion.raised, value |-> None, plan |-> plan]
    ELSE Enhanced(MergeEnhanced(plan,
            json_loads(CleanUp(strip(Return(completion.content))))))

(***************************************************************************)
(* The route /chatbot/generate-plan-from-string.  Its result holds the     *)
(* exception the route ends with or the response it returns, the requests  *)
(* sent to the gateway, and whether enhance_tour_plan was called.          *)
(***************************************************************************)
InvalidPlanData ==
    "HTTPException(400): Invalid plan_data format. Must be a valid JSON string."

NoPlanInformation ==
    "HTTPException(404): No tour plan information found in the input data"

FlightOrBudgetRequired ==
    "HTTPException(400): Either flight information or budget information is required for generating a tour plan"

ErrorGeneratingTourPlan == "HTTPException(500): Error generating tour plan"

\* not j, for a decoded value
Falsy(j) ==
    CASE j.t = "object" -> DOMAIN j.v = {}
      [] j.t \in {"array", "string"} -> Len(j.v) = 0
      [] j.t = "number" -> j.v = 0
      [] OTHER -> TRUE

\* key in j, for a decoded value: a key of a mapping, an element of a list,
\* a part of a text; a number is not iterable
In(key, j) ==
    CASE j.t = "object" -> Return(key \in DOMAIN j.v)
      [] j.t = "array"  -> Return(\E i \in DOMAIN j.v : j.v[i] = key)
      [] j.t = "string" -> Return(Contains(key, j.v))
      [] OTHER -> Raise("TypeError")

\* the inner try of the route
Loaded(r) ==
    IF r.raised = "JSONDecodeError" THEN Raise(InvalidPlanData) ELSE r

\* if not plan: raise ...
NotEmpty(r) ==
    IF r.raised # None THEN r
    ELSE IF Falsy(r.value) THEN Raise(NoPlanInformation)
    ELSE r

\* if "flight" not in plan and "budget" not in plan: raise ...
FlightOrBudget(r) ==
    IF r.raised # None THEN r
    ELSE IF In("flight", r.value).raised # None
    THEN Raise(In("flight", r.value).raised)
    ELSE IF ~In("flight", r.value).value /\ ~In("budget", r.value).value
    THEN Raise(FlightOrBudgetRequired)
    ELSE r

\* the two except clauses of the route
RouteExcept(e) ==
    IF IsPrefix("HTTPException", e) THEN e ELSE ErrorGeneratingTourPlan

TourPlanResponse(enhanced_plan) ==
    [plan      |-> enhanced_plan,
     summary   |-> Get(enhanced_plan, "summary", ""),
     itinerary |-> Get(enhanced_plan, "itinerary", <<>>),
     estimated_total_cost |-> Get(enhanced_plan, "estimated_total_cost", None)]

RouteResult(raised, value, sent, handed) ==
    [raised |-> raised, value |-> value, sent |-> sent, handed |-> handed]

\* the route from the return of enhance_tour_plan on
Responded(out, sent) ==
    IF out.raised # None
    THEN RouteResult(RouteExcept(out.raised), None, sent, TRUE)
    ELSE RouteResult(None, TourPlanResponse(out.value), sent, TRUE)

\* the route from the call of enhance_tour_plan on: a plan that is no
\* mapping has no get, and the call raises at its first line
Handed(service, checked, completion) ==
    IF checked.raised # None
    THEN RouteResult(RouteExcept(checked.raised), None, <<>>, FALSE)
    ELSE IF checked.value.t # "object"
    THEN RouteResult(RouteExcept("AttributeError"), None, <<>>, TRUE)
    ELSE Responded(enhance_tour_plan(checked.value.v, completion),
                   <<EnhanceRequest(service, checked.value.v)>>)

\* the route without its test for the flight and budget keys
generate_tour_plan_from_string_unchecked(service, plan_data, completion) ==
    Handed(service,
           NotEmpty(Loaded(json_loads(Return(plan_data)))),
           completion)

generate_tour_plan_from_string(service, plan_data, completion) ==
    Handed(service,
           FlightOrBudget(NotEmpty(Loaded(json_loads(Return(plan_data))))),
           completion)

(***************************************************************************)
(* AmadeusService: the access token and the hotel and activity lookups.    *)
(* A response is what the awaited client call produces: error is the       *)
(* httpx exception it raised (None when a response came back), json is the *)
(* decoded body, NoJson when response.json() raises.  The result of a      *)
(* method also holds the token fields as the call leaves them and the      *)
(* requests it sent.                                                       *)
(***************************************************************************)
NoJson == [undecodable |-> TRUE]

\* a datetime or None in an attribute: None is <<>>, a time t is <<t>>
NoTime == <<>>
Time(t) == <<t>>
AsTime(x) == x[1]

TokenRequest ==
    [to |-> "amadeus", method |-> "POST", url |-> "/v1/security/oauth2/token"]

LookupRequest(url, access_token, params) ==
    [to |-> "amadeus", method |-> "GET", url |-> url,
     bearer |-> access_token, params |-> params]

Done(raised, value, tk, expiry, sent) ==
    [raised |-> raised, value |-> value, token |-> tk,
     token_expiry |-> expiry, sent |-> sent]

\* get_access_token from the POST on: self.token is assigned before
\* expires_in is read
NewToken(tk, expiry, t, response) ==
    IF response.error # None
    THEN Done(response.error, None, tk, expiry, <<TokenRequest>>)
    ELSE IF response.status_code # 200
    THEN Done("Exception: Failed to get access token", None, tk, expiry,
              <<TokenRequest>>)
    ELSE IF response.json = NoJson
    THEN Done("JSONDecodeError", None, tk, expiry, <<TokenRequest>>)
    ELSE IF "access_token" \notin DOMAIN response.json
    THEN Done("KeyError", None, tk, expiry, <<TokenRequest>>)
    ELSE IF "expires_in" \notin DOMAIN response.json
    THEN Done("KeyError", None, response.json.access_token, expiry,
              <<TokenRequest>>)
    ELSE Done(None, response.json.access_token, response.json.access_token,
              Time(t + response.json.expires_in - 300), <<TokenRequest>>)

get_access_token(tk, expiry, t, response) ==
    IF Truthy(tk) /\ expiry # NoTime /\ t < AsTime(expiry)
    THEN Done(None, tk, tk, expiry, <<>>)
    ELSE NewToken(tk, expiry, t, response)

\* response.raise_for_status(): returns for a 2xx status, raises
\* httpx.HTTPStatusError for a 4xx or 5xx one
raise_for_status(response) ==
    IF response.status_code \div 100 = 2 THEN Return(None)
    ELSE Raise("HTTPStatusError")

\* response.json() followed by data.get("data", [])
DataOf(response) ==
    IF response.json = NoJson THEN Raise("JSONDecodeError")
    ELSE Return(Get(response.json, "data", <<>>))

\* the status tests of search_hotels_by_city
HotelsByStatus(response) ==
    IF response.error # None THEN Raise(response.error)
    ELSE IF response.status_code = 200 THEN DataOf(response)
    ELSE IF response.status_code = 400
    THEN Raise("HTTPException(400): Invalid city code provided")
    ELSE IF response.status_code = 404 THEN Return(<<>>)
    ELSE raise_for_status(response)

\* the status tests of search_hotels_by_city without the one for 404
HotelsByStatusNo404(response) ==
    IF response.error # None THEN Raise(response.error)
    ELSE IF response.status_code = 200 THEN DataOf(response)
    ELSE IF response.status_code = 400
    THEN Raise("HTTPException(400): Invalid city code provided")
    ELSE raise_for_status(response)

\* the three except clauses of search_hotels_by_city
HotelsExcept(r) ==
    IF r.raised = None THEN r
    ELSE IF r.raised = "HTTPStatusError"
    THEN Raise("Exception: Amadeus API error")
    ELSE IF IsPrefix("HTTPException", r.raised) THEN r
    ELSE Raise("Exception: Hotel search failed")

\* the two methods from the awaited get_access_token on
HotelsWithToken(a, city_code, r) ==
    IF a.raised # None
    THEN [a EXCEPT !.raised = HotelsExcept(Raise(a.raised)).raised]
    ELSE [a EXCEPT
            !.raised = r.raised,
            !.value  = r.value,
            !.sent   = Append(@,
                LookupRequest("/v1/reference-data/locations/hotels/by-city",
                              a.value, [cityCode |-> city_code]))]

\* search_hotels_by_city that sends a 404 to raise_for_status
search_hotels_by_city_no_404(tk, expiry, t, city_code, token_response, response) ==
    HotelsWithToken(get_access_token(tk, expiry, t, token_response),
                    city_code, HotelsExcept(HotelsByStatusNo404(response)))

search_hotels_by_city(tk, expiry, t, city_code, token_response, response) ==
    HotelsWithToken(get_access_token(tk, expiry, t, token_response),
                    city_code, HotelsExcept(HotelsByStatus(response)))

(***************************************************************************)
(* routes.py: GET /hotels/search.  The query parameter has passed the      *)
(* length test of the framework (three characters) when the handler runs.  *)
(***************************************************************************)
UpperChar(c) ==
    IF c \in CharsOf(LowerAlphabet)
    THEN LET i == CHOOSE j \in 1..26 : SubSeq(LowerAlphabet, j, j) = c
         IN  SubSeq(UpperAlphabet, i, i)
    ELSE c

RECURSIVE upper(_)
upper(s) ==
    IF s = "" THEN ""
    ELSE UpperChar(SubSeq(s, 1, 1)) \o upper(SubSeq(s, 2, Len(s)))

isalpha(s) == s # "" /\ CharsOf(s) \subseteq Letter

OnlyLetters == "HTTPException(400): City code must contain only letters"

ErrorSearchingHotels == "HTTPException(500): Error searching hotels"

\* the route from the return of search_hotels_by_city on: `except Exception`
\* is the only clause, and HTTPException is an Exception.  The field
\* service keeps what the provider service ended with.
HotelsResponse(city_code, out) ==
    [service |-> out.raised]
    @@ IF out.raised # None
       THEN [out EXCEPT !.raised = ErrorSearchingHotels, !.value = None]
       ELSE [out EXCEPT !.value = [city_code    |-> city_code,
                                   hotels_count |-> Len(out.value),
                                   hotels       |-> out.value]]

\* the handler; out is what search_hotels_by_city(city_code.upper()) ends
\* with when the handler calls it
search_hotels(tk, expiry, city_code, out) ==
    IF ~isalpha(city_code)
    THEN [service |-> None]
         @@ Done(ErrorSearchingHotels, None, tk, expiry, <<>>)
    ELSE HotelsResponse(upper(city_code), out)

\* the status tests of search_activities
ActivitiesByStatus(response) ==
    IF response.error # None THEN Raise(response.error)
    ELSE IF response.status_code = 200 THEN DataOf(response)
    ELSE IF response.status_code = 400
    THEN Raise("Exception: Invalid coordinates provided for activity search")
    ELSE IF response.status_code = 404 THEN Return(<<>>)
    ELSE raise_for_status(response)

\* the two except clauses of search_activities
ActivitiesExcept(r) ==
    IF r.raised = None THEN r
    ELSE IF r.raised = "HTTPStatusError"
    THEN Raise("Exception: Amadeus API error")
    ELSE Raise("Exception: Activity search failed")

ActivitiesWithToken(a, place, r) ==
    IF a.raised # None
    THEN [a EXCEPT !.raised = ActivitiesExcept(Raise(a.raised)).raised]
    ELSE [a EXCEPT
            !.raised = r.raised,
            !.value  = r.value,
            !.sent   = Append(@,
                LookupRequest("/v1/shopping/activities", a.value, place))]

search_activities(tk, expiry, t, place, token_response, response) ==
    ActivitiesWithToken(get_access_token(tk, expiry, t, token_response),
                        place, ActivitiesExcept(ActivitiesByStatus(response)))

\* the record of a call: its arguments and its result are records of their
\* names (message, limit, ...; reply, context, history, plan), NoValue when
\* there is none, and raised is the exception that ended it, if any
NoValue == EmptyDict

Outcome(op, user, arg, raised, value, branch) ==
    [op |-> op, user |-> user, arg |-> arg, raised |-> raised,
     value |-> value, branch |-> branch]

\* the threads that run dialogue turns
Threads == {1, 2}

IdleTurn == [pc |-> "idle", user_id |-> None, message |-> None]

IdleSweep ==
    [pc |-> "idle", current_time |-> 0, size |-> 0, pos |-> 0,
     expired_users |-> <<>>]

\* the modules are imported, the store and the service are constructed:
\* ChatbotService.__init__ assigns amadeus_service, groq_api_key,
\* groq_client and model, and no attribute `memory`
Init ==
    /\ now = ImportTime
    /\ user_contexts = <<>>
    /\ memory = "unset"
    /\ ret = Outcome("__init__", None, NoValue, None, NoValue, None)
    /\ calls = 0
    /\ sweep = IdleSweep
    /\ environ = [GROQ_API_KEY |-> "gsk_live"]
    /\ token = None
    /\ token_expiry = NoTime
    /\ wire = <<>>
    /\ turns = [k \in Threads |-> IdleTurn]

Tick ==
    \E d \in ClockSteps :
        /\ now + d <= MaxClock
        /\ now' = now + d
        /\ UNCHANGED <<user_contexts, memory, ret, calls, sweep, io, turns>>

\* the application hands the store to the service (service.memory = cache)
BindMemory ==
    /\ memory = "unset"
    /\ memory' = "cache"
    /\ UNCHANGED <<now, user_contexts, ret, calls, sweep, io, turns>>

Call(uc, outcome) ==
    /\ calls < MaxCalls
    /\ calls' = calls + 1
    /\ user_contexts' = uc
    /\ ret' = outcome
    /\ UNCHANGED <<now, memory, sweep, io, turns>>

GetUserContext ==
    \E u \in Users :
        LET uc == get_user_context(user_contexts, u)
        IN  Call(uc, Outcome("get_user_context", u, NoValue, None,
                             [context |-> Lookup(uc, u)], None))

AddMessage ==
    \E u \in Users, role \in Roles, content \in Contents :
        Call(add_message(user_contexts, u, role, content, now),
             Outcome("add_message", u, [role |-> role, content |-> content],
                     None, NoValue, None))

GetConversationHistory ==
    \E u \in Users, limit \in Limits :
        Call(get_user_context(user_contexts, u),
             Outcome("get_conversation_history", u, [limit |-> limit], None,
                     [history |->
                        get_conversation_history(user_contexts, u, limit)],
                     None))

StoreSearchResult ==
    \E u \in Users, search_type \in SearchTypes, result \in SearchResults :
        Call(store_search_result(user_contexts, u, search_type, result, now),
             Outcome("store_search_result", u,
                     [search_type |-> search_type, result |-> result],
                     None, NoValue, None))

UpdatePreferences ==
    \E u \in Users, preferences \in PreferenceUpdates :
        Call(update_preferences(user_contexts, u, preferences, now),
             Outcome("update_preferences", u, [preferences |-> preferences],
                     None, NoValue, None))

UpdateCurrentPlan ==
    \E u \in Users, plan_data \in PlanUpdates :
        Call(update_current_plan(user_contexts, u, plan_data, now),
             Outcome("update_current_plan", u, [plan_data |-> plan_data],
                     None, NoValue, None))

GetCurrentPlan ==
    \E u \in Users :
        Call(get_user_context(user_contexts, u),
             Outcome("get_current_plan", u, NoValue, None,
                     [plan |-> get_current_plan(user_contexts, u)], None))

ClearExpiredContexts ==
    Call(clear_expired_contexts(user_contexts, now),
         Outcome("clear_expired_contexts", None, NoValue, None, NoValue,
                 None))

\* process_message: its first statement reads self.memory, which raises
\* AttributeError on a service that has no such attribute
Turn(inputs) ==
    /\ calls < MaxCalls
    /\ \E u \in Users, message \in inputs :
        IF memory = "unset"
        THEN Call(user_contexts,
                  Outcome("process_message", u, [message |-> message],
                          "AttributeError", NoValue, None))
        ELSE \E out \in {process_message(user_contexts, u, message, now)} :
                Call(out.uc,
                     Outcome("process_message", u, [message |-> message],
                             None, [reply |-> out.response], out.branch))

ProcessMessage == Turn(Messages)

\* the turns whose messages exercise the extractors
ProcessIntentMessage == Turn(IntentMessages)

\* _get_country_code, called on its own
GetCountryCode ==
    \E country_name \in CountryNames :
        Call(user_contexts,
             Outcome("_get_country_code", None,
                     [country_name |-> country_name], None,
                     [country_code |-> _get_country_code(country_name)],
                     None))

\* the store on its own: every operation of ChatMemoryCache, and the clock
\* a call that leaves the chat store alone: its outcome, the requests it
\* sent and the token the provider service holds after it
Serve(outcome, sent, tk, expiry) ==
    /\ calls' = calls + 1
    /\ ret' = outcome
    /\ wire' = sent
    /\ token' = tk
    /\ token_expiry' = expiry
    /\ UNCHANGED <<now, user_contexts, memory, sweep, environ, turns>>

\* the outcome of a gateway call made on the service a request constructs
Gateway(op, arg, service, out, request) ==
    IF service.raised # None
    THEN Serve(Outcome(op, None, arg, service.raised, NoValue, None),
               <<>>, token, token_expiry)
    ELSE Serve(Outcome(op, None, arg, out.raised, out, None),
               <<request>>, token, token_expiry)

ProcessNaturalLanguage ==
    /\ calls < MaxCalls
    /\ \E user_input \in UserInputs, completion \in Completions :
        Gateway("process_natural_language",
                [user_input |-> user_input, completion |-> completion],
                get_chatbot_service(environ),
                process_natural_language(user_input, completion),
                ExtractionRequest(get_chatbot_service(environ).value, user_input))

EnhanceTourPlan ==
    /\ calls < MaxCalls
    /\ \E plan \in EnhancePlans, completion \in Completions :
        Gateway("enhance_tour_plan",
                [plan |-> plan, completion |-> completion],
                get_chatbot_service(environ),
                enhance_tour_plan(plan, completion),
                EnhanceRequest(get_chatbot_service(environ).value, plan))

\* a request to /chatbot/generate-plan-from-string: the dependency
\* constructs the service, then the route runs
RouteCall(op, arg, service, out) ==
    IF service.raised # None
    THEN Serve(Outcome(op, None, arg, service.raised, NoValue, None),
               <<>>, token, token_expiry)
    ELSE Serve(Outcome(op, None, arg, out.raised, out, None),
               out.sent, token, token_expiry)

GenerateTourPlanFromString ==
    /\ calls < MaxCalls
    /\ \E plan_data \in PlanData, completion \in Completions :
        RouteCall("generate_tour_plan_from_string",
                  [plan_data |-> plan_data, completion |-> completion],
                  get_chatbot_service(environ),
                  generate_tour_plan_from_string(
                      get_chatbot_service(environ).value, plan_data,
                      completion))

\* a call of a lookup of the provider service
ProviderCall(op, arg, out) ==
    Serve(Outcome(op, None, arg, out.raised, [result |-> out.value], None),
          out.sent, out.token, out.token_expiry)

SearchHotelsByCity ==
    /\ calls < MaxCalls
    /\ \E city_code \in CityCodes, token_response \in TokenResponses,
          response \in LookupResponses :
        ProviderCall("search_hotels_by_city",
                [to |-> city_code, token_response |-> token_response,
                 response |-> response],
                search_hotels_by_city(token, token_expiry, now, city_code,
                                      token_response, response))

\* GET /hotels/search
SearchHotels ==
    /\ calls < MaxCalls
    /\ \E city_code \in RouteCityCodes, token_response \in TokenResponses,
          response \in LookupResponses :
        \E service \in {search_hotels_by_city(token, token_expiry, now,
                                              upper(city_code),
                                              token_response, response)} :
        \E out \in {search_hotels(token, token_expiry, city_code, service)} :
            Serve(Outcome("search_hotels", None,
                          [city_code |-> city_code,
                           token_response |-> token_response,
                           response |-> response],
                          out.raised,
                          [result |-> out.value, service |-> out.service],
                          None),
                  out.sent, out.token, out.token_expiry)

SearchActivities ==
    /\ calls < MaxCalls
    /\ \E place \in Places, token_response \in TokenResponses,
          response \in LookupResponses :
        ProviderCall("search_activities",
                [to |-> place, token_response |-> token_response,
                 response |-> response],
                search_activities(token, token_expiry, now, place,
                                  token_response, response))

Next ==
    \/ Tick
    \/ GetUserContext
    \/ AddMessage
    \/ GetConversationHistory
    \/ StoreSearchResult
    \/ UpdatePreferences
    \/ UpdateCurrentPlan
    \/ GetCurrentPlan
    \/ ClearExpiredContexts

Spec == Init /\ [][Next]_vars

\* the service: dialogue turns, with the plan updates and the sweeps that
\* other callers of the same store make between them
NextService ==
    \/ Tick
    \/ BindMemory
    \/ ProcessMessage
    \/ UpdateCurrentPlan
    \/ ClearExpiredContexts

SpecService == Init /\ [][NextService]_vars

\* the gateway calls, in a process started with any of the environments
InitGateway ==
    /\ now = ImportTime
    /\ user_contexts = <<>>
    /\ memory = "unset"
    /\ ret = Outcome("__init__", None, NoValue, None, NoValue, None)
    /\ calls = 0
    /\ sweep = IdleSweep
    /\ environ \in Environments
    /\ token = None
    /\ token_expiry = NoTime
    /\ wire = <<>>
    /\ turns = [k \in Threads |-> IdleTurn]

NextGateway ==
    \/ ProcessNaturalLanguage
    \/ EnhanceTourPlan
    \/ GenerateTourPlanFromString

SpecGateway == InitGateway /\ [][NextGateway]_vars

\* the provider service of routes.py, one object for all requests
NextAmadeus ==
    \/ Tick
    \/ SearchHotelsByCity
    \/ SearchActivities
    \/ SearchHotels

SpecAmadeus == Init /\ [][NextAmadeus]_vars

\* the service over the messages that exercise the extractors
NextIntents ==
    \/ BindMemory
    \/ ProcessIntentMessage
    \/ GetCountryCode

SpecIntents == Init /\ [][NextIntents]_vars

\* store operations and dialogue turns together, over shorter runs
NextAll ==
    \/ Tick
    \/ BindMemory
    \/ calls < MaxCallsAll /\ (Next \/ ProcessMessage)

SpecAll == Init /\ [][NextAll]_vars

(***************************************************************************)
(* clear_expired_contexts step by step, as a thread of its own sees it     *)
(* when other threads call the store between its steps.  The frame holds   *)
(* current_time, the dict iterator of the first loop (the size of the dict *)
(* when the iterator was made and the number of entries it has passed) and *)
(* expired_users.                                                          *)
(***************************************************************************)
SweepBegin ==
    /\ sweep.pc = "idle"
    /\ calls < MaxCalls
    /\ calls' = calls + 1
    /\ sweep' = [pc |-> "scan", current_time |-> now,
                 size |-> Len(user_contexts), pos |-> 0,
                 expired_users |-> <<>>]
    /\ UNCHANGED <<now, user_contexts, memory, ret, io, turns>>

\* next() on the iterator of a dict whose size has changed since the
\* iterator was made raises RuntimeError, which ends the call
SweepScanRaise ==
    /\ sweep.pc = "scan"
    /\ Len(user_contexts) # sweep.size
    /\ sweep' = IdleSweep
    /\ ret' = Outcome("clear_expired_contexts", None, NoValue,
                      "RuntimeError", NoValue, None)
    /\ UNCHANGED <<now, user_contexts, memory, calls, io, turns>>

\* one pass of the first loop: the entry is tested with the
\* last_interaction it has now
SweepScanNext ==
    /\ sweep.pc = "scan"
    /\ Len(user_contexts) = sweep.size
    /\ sweep.pos < Len(user_contexts)
    /\ LET entry     == user_contexts[sweep.pos + 1]
           time_diff == sweep.current_time - entry.value.last_interaction
       IN  sweep' = [sweep EXCEPT
                        !.pos = @ + 1,
                        !.expired_users =
                            IF time_diff > expiry_time
                            THEN Append(@, entry.key) ELSE @]
    /\ UNCHANGED <<now, user_contexts, memory, ret, calls, io, turns>>

SweepScanStop ==
    /\ sweep.pc = "scan"
    /\ Len(user_contexts) = sweep.size
    /\ sweep.pos >= Len(user_contexts)
    /\ sweep' = [sweep EXCEPT !.pc = "delete"]
    /\ UNCHANGED <<now, user_contexts, memory, ret, calls, io, turns>>

\* one pass of the second loop: del self.user_contexts[user_id]
SweepDeleteNext ==
    /\ sweep.pc = "delete"
    /\ sweep.expired_users # <<>>
    /\ user_contexts' = DelItem(user_contexts, Head(sweep.expired_users))
    /\ sweep' = [sweep EXCEPT !.expired_users = Tail(@)]
    /\ UNCHANGED <<now, memory, ret, calls, io, turns>>

SweepReturn ==
    /\ sweep.pc = "delete"
    /\ sweep.expired_users = <<>>
    /\ sweep' = IdleSweep
    /\ ret' = Outcome("clear_expired_contexts", None, NoValue, None, NoValue,
                      None)
    /\ UNCHANGED <<now, user_contexts, memory, calls, io, turns>>

(***************************************************************************)
(* process_message as a thread of its own runs it: the first add_message,  *)
(* then _generate_response and the second add_message.  The frame holds    *)
(* user_id and message.                                                    *)
(***************************************************************************)
TurnBegin ==
    /\ calls < MaxCalls
    /\ \E k \in Threads, u \in Users, message \in ThreadMessages :
        /\ turns[k].pc = "idle"
        /\ calls' = calls + 1
        /\ IF memory = "unset"
           THEN /\ ret' = Outcome("process_message", u,
                                  [message |-> message], "AttributeError",
                                  NoValue, None)
                /\ UNCHANGED <<user_contexts, turns>>
           ELSE /\ user_contexts' =
                       add_message(user_contexts, u, "user", message, now)
                /\ turns' = [turns EXCEPT ![k] =
                                [pc |-> "respond", user_id |-> u,
                                 message |-> message]]
                /\ UNCHANGED ret
        /\ UNCHANGED <<now, memory, sweep, io>>

TurnEnd ==
    \E k \in Threads :
        /\ turns[k].pc = "respond"
        /\ \E out \in {Reply(_generate_response(user_contexts,
                                                turns[k].user_id,
                                                turns[k].message, now),
                              turns[k].user_id, now)} :
              /\ user_contexts' = out.uc
              /\ ret' = Outcome("process_message", turns[k].user_id,
                                [message |-> turns[k].message], None,
                                [reply |-> out.response], out.branch)
        /\ turns' = [turns EXCEPT ![k] = IdleTurn]
        /\ UNCHANGED <<now, memory, calls, sweep, io>>

\* dialogue turns on two threads and a sweep on a third
NextTurns ==
    \/ Tick
    \/ BindMemory
    \/ TurnBegin
    \/ TurnEnd
    \/ SweepBegin
    \/ SweepScanRaise
    \/ SweepScanNext
    \/ SweepScanStop
    \/ SweepDeleteNext
    \/ SweepReturn

SpecTurns == Init /\ [][NextTurns]_vars

NextThreads ==
    \/ Tick
    \/ GetUserContext
    \/ AddMessage
    \/ UpdateCurrentPlan
    \/ SweepBegin
    \/ SweepScanRaise
    \/ SweepScanNext
    \/ SweepScanStop
    \/ SweepDeleteNext
    \/ SweepReturn

SpecThreads == Init /\ [][NextThreads]_vars

(***************************************************************************)
(* Properties                                                              *)
(***************************************************************************)
MessagesOf(uc, u) == IF u \in Keys(uc) THEN Lookup(uc, u).messages ELSE <<>>
PlanOf(uc, u) == IF u \in Keys(uc) THEN Lookup(uc, u).current_plan ELSE EmptyDict
PreferencesOf(uc, u) ==
    IF u \in Keys(uc) THEN Lookup(uc, u).preferences ELSE EmptyDict

\* the keys on which two dicts differ
ChangedKeys(d, e) ==
    {k \in DOMAIN d \cup DOMAIN e :
        ~(k \in DOMAIN d /\ k \in DOMAIN e /\ d[k] = e[k])}

StartsWith(prefix, x) ==
    Len(prefix) <= Len(x) /\ SubSeq(x, 1, Len(prefix)) = prefix

\* a call has just returned
Returned(op) == calls' = calls + 1 /\ ret'.op = op /\ ret'.raised = None

\* a dialogue turn has just returned a reply
TurnReturned == Returned("process_message")

BranchOrder ==
    <<"greeting", "flight", "hotel", "city", "activity", "plan", "default">>

\* the test each branch of the policy makes, read off a message alone
BranchTests ==
    [raw \in Messages |->
        LET p == Parsed[raw]
        IN  [greeting |-> _is_greeting(p.message),
             flight   |-> p.flight_info # NoInfo,
             hotel    |-> p.hotel_info # NoInfo,
             city     |-> p.city_info # NoInfo,
             activity |-> p.activity_info # NoInfo,
             plan     |-> /\ Contains("plan", p.message)
                          /\ \E w \in {"tour", "trip", "vacation"} :
                                Contains(w, p.message),
             default  |-> TRUE]]

\* the opening words of the replies of each branch
ReplyOpenings ==
    [greeting |-> {"Hello! I'm your travel planning assistant.",
                   "Hello again!"},
     flight   |-> {"I've noted your flight search from "},
     hotel    |-> {"I need a city code to search for hotels in ",
                   "I've noted your interest in hotels in "},
     city     |-> {"I need a country code to search for cities in ",
                   "What kind of cities are you looking for in ",
                   "I've noted your interest in cities like '"},
     activity |-> {"I've noted your interest in activities in "},
     plan     |-> {"I don't have enough information to create a tour plan yet.",
                   "Here's a summary of your tour plan"},
     default  |-> {"I can help you search for flights, hotels, cities, and activities to plan your tour."}]

\* the keys of current_plan and of preferences a branch may write
PlanKeysOf ==
    [greeting |-> {}, flight |-> {"flight"}, hotel |-> {"hotel"},
     city |-> {"city_search"}, activity |-> {"activities"}, plan |-> {},
     default |-> {}]

PreferenceKeysOf ==
    [greeting |-> {}, flight |-> {"flight_preferences"}, hotel |-> {},
     city |-> {}, activity |-> {}, plan |-> {}, default |-> {}]

\* C1: every turn takes the first branch, in the order greeting, flight,
\* hotel, city, activity, plan summary, default, whose test the message
\* passes; the reply is one of that branch and no key of current_plan or of
\* preferences other than that branch's own is written.
C1_FirstMatchWins ==
    [][TurnReturned =>
        LET u    == ret'.user
            raw  == ret'.arg.message
            b    == ret'.branch
            rank == CHOOSE i \in DOMAIN BranchOrder : BranchOrder[i] = b
        IN  /\ BranchTests[raw][b]
            /\ \A i \in 1..(rank - 1) : ~BranchTests[raw][BranchOrder[i]]
            /\ \E opening \in ReplyOpenings[b] : StartsWith(opening, ret'.value.reply)
            /\ ChangedKeys(PlanOf(user_contexts, u), PlanOf(user_contexts', u))
                   \subseteq PlanKeysOf[b]
            /\ ChangedKeys(PreferencesOf(user_contexts, u),
                           PreferencesOf(user_contexts', u))
                   \subseteq PreferenceKeysOf[b]
    ]_vars

\* a turn whose message holds a greeting keyword and yields a flight intent
\* has returned the greeting reply
C1_Witness ==
    /\ ret.op = "process_message" /\ ret.raised = None
    /\ ret.branch = "greeting"
    /\ Parsed[ret.arg.message].flight_info # NoInfo
    /\ "flight" \notin DOMAIN PlanOf(user_contexts, ret.user)

\* C2: a turn that returns a reply extends the user's history by exactly
\* two entries, the inbound message as "user" and then the reply as
\* "assistant".
C2_TurnAppendsTwo ==
    [][TurnReturned =>
        MessagesOf(user_contexts', ret'.user) =
            MessagesOf(user_contexts, ret'.user)
            \o <<Message("user", ret'.arg.message),
                 Message("assistant", ret'.value.reply)>>
    ]_vars

\* a second turn of a user has returned
C2_Witness ==
    /\ ret.op = "process_message" /\ ret.raised = None
    /\ Len(MessagesOf(user_contexts, ret.user)) = 4

\* C3: every process_message call on a constructed service returns a reply
\* and raises nothing.
C3_AlwaysReplies ==
    ret.op = "process_message" => ret.raised = None

\* C4: a sweep removes exactly the contexts whose age exceeds expiry_time,
\* keeps every other one as it was (one whose age equals expiry_time
\* included), and leaves nothing a second sweep at the same time would
\* remove.
C4_SweepExact ==
    [][Returned("clear_expired_contexts") =>
        LET Kept(e) == ~(now - e.value.last_interaction > expiry_time)
        IN  /\ user_contexts' = SelectSeq(user_contexts, Kept)
            /\ SelectSeq(user_contexts', Kept) = user_contexts'
    ]_vars

\* a sweep has kept a context whose age equals expiry_time
C4_Witness ==
    /\ ret.op = "clear_expired_contexts"
    /\ \E i \in DOMAIN user_contexts :
          now - user_contexts[i].value.last_interaction = expiry_time

\* what one context keeps of an earlier one when it has not been reset
Extends(c, d) ==
    /\ d.user_id = c.user_id
    /\ IsPrefix(c.messages, d.messages)
    /\ DOMAIN c.preferences \subseteq DOMAIN d.preferences
    /\ DOMAIN c.current_plan \subseteq DOMAIN d.current_plan
    /\ \A b \in DOMAIN c.search_history :
          IsPrefix(c.search_history[b], d.search_history[b])
    /\ d.last_interaction >= c.last_interaction

\* C5: after any store operation for an identifier a context exists for it,
\* and no operation other than clear_expired_contexts removes or resets a
\* context, whatever its age.
C5_OnlySweepRemoves ==
    [][(calls' = calls + 1 /\ ret'.op # "clear_expired_contexts") =>
        /\ ret'.user \in Keys(user_contexts')
        /\ \A k \in Keys(user_contexts) :
              /\ k \in Keys(user_contexts')
              /\ Extends(Lookup(user_contexts, k), Lookup(user_contexts', k))
    ]_vars

\* a read has gone through a context that holds a message and is older than
\* expiry_time
C5_Witness ==
    /\ ret.op = "get_conversation_history"
    /\ ret.user \in Keys(user_contexts)
    /\ MessagesOf(user_contexts, ret.user) # <<>>
    /\ now - Lookup(user_contexts, ret.user).last_interaction > expiry_time

\* C6: a sweep that runs interleaved with store operations of another
\* thread ends without an error and deletes no context whose
\* last_interaction is within expiry_time when it is deleted.
C6_SweepSafeUnderInterleaving ==
    [][/\ ret'.op = "clear_expired_contexts" => ret'.raised = None
       /\ \A k \in Keys(user_contexts) \ Keys(user_contexts') :
             now - Lookup(user_contexts, k).last_interaction > expiry_time
    ]_vars

\* C7: an operation for one identifier leaves the context of every other
\* identifier as it was, and creates none for another identifier.
C7_OtherUsersUntouched ==
    [][(calls' = calls + 1 /\ ret'.user \in Users) =>
        \A k \in Users \ {ret'.user} :
            /\ k \in Keys(user_contexts) <=> k \in Keys(user_contexts')
            /\ k \in Keys(user_contexts) =>
                  Lookup(user_contexts', k) = Lookup(user_contexts, k)
    ]_vars

\* a turn of one user has returned while another user holds messages and a
\* plan
C7_Witness ==
    /\ ret.op = "process_message" /\ ret.raised = None
    /\ \E k \in Keys(user_contexts) \ {ret.user} :
          /\ MessagesOf(user_contexts, k) # <<>>
          /\ DOMAIN PlanOf(user_contexts, k) # {}

\* C8: a flight branch of a turn, and update_current_plan with a mapping
\* that holds only "flight", set the "flight" section and leave every other
\* section of current_plan with the value it had.
C8_FlightMergeKeepsOthers ==
    [][\/ TurnReturned /\ ret'.branch = "flight"
       \/ /\ Returned("update_current_plan")
          /\ DOMAIN ret'.arg.plan_data = {"flight"}
       =>
        LET old == PlanOf(user_contexts, ret'.user)
            new == PlanOf(user_contexts', ret'.user)
            section == IF ret'.op = "update_current_plan"
                       THEN ret'.arg.plan_data["flight"]
                       ELSE Parsed[ret'.arg.message].flight_info
        IN  /\ DOMAIN new = DOMAIN old \cup {"flight"}
            /\ new["flight"] = section
            /\ \A k \in DOMAIN old \ {"flight"} : new[k] = old[k]
    ]_vars

\* a flight turn has returned for a user whose plan holds a hotel section
C8_Witness ==
    /\ ret.op = "process_message" /\ ret.raised = None
    /\ ret.branch = "flight"
    /\ DOMAIN PlanOf(user_contexts, ret.user) = {"flight", "hotel"}

\* C9: get_conversation_history called right after add_message for the
\* same user returns the last messages of the history in arrival order,
\* the one just added last.
C9_AppendThenRead ==
    [][(/\ ret.op = "add_message"
        /\ Returned("get_conversation_history")
        /\ ret'.user = ret.user) =>
        LET h    == ret'.value.history
            msgs == MessagesOf(user_contexts, ret.user)
        IN  /\ h # <<>>
            /\ h[Len(h)].role = ret.arg.role
            /\ h[Len(h)].content = ret.arg.content
            /\ h = SubSeq(msgs, Len(msgs) - Len(h) + 1, Len(msgs))
            /\ MessagesOf(user_contexts', ret.user) = msgs
    ]_vars

\* a history of two messages has been read with a limit of one
C9_Witness ==
    /\ ret.op = "get_conversation_history"
    /\ ret.arg.limit = 1
    /\ Len(ret.value.history) = 1
    /\ Len(MessagesOf(user_contexts, ret.user)) = 2

\* "from X" followed by "to" or "and": the word, white space, one or more
\* letters or white space, white space, the next word
HasOriginPhrase(m) ==
    \E i \in 1..Len(m), l \in 1..Len(m) :
        /\ i + 3 <= Len(m) /\ SubSeq(m, i, i + 3) = "from"
        /\ l >= i + 6
        /\ \A x \in (i + 4)..l : SubSeq(m, x, x) \in Letter \cup Whitespace
        /\ SubSeq(m, i + 4, i + 4) \in Whitespace
        /\ SubSeq(m, l, l) \in Whitespace
        /\ \/ l + 2 <= Len(m) /\ SubSeq(m, l + 1, l + 2) = "to"
           \/ l + 3 <= Len(m) /\ SubSeq(m, l + 1, l + 3) = "and"

\* "to X": the word, white space, one or more letters or white space
HasDestinationPhrase(m) ==
    \E i \in 1..Len(m) :
        /\ i + 3 <= Len(m) /\ SubSeq(m, i, i + 1) = "to"
        /\ SubSeq(m, i + 2, i + 2) \in Whitespace
        /\ SubSeq(m, i + 3, i + 3) \in Letter \cup Whitespace

\* the messages that hold a flight keyword and lack one of the two phrases
IncompleteFlight ==
    {raw \in Messages :
        LET m == Parsed[raw].message
        IN  /\ Contains("flight", m) \/ Contains("fly", m)
            /\ ~HasOriginPhrase(m) \/ ~HasDestinationPhrase(m)}

\* C10: for a message with a flight keyword that lacks the origin phrase or
\* the destination phrase the extractor returns None, and the turn takes
\* another branch and writes neither a "flight" section nor
\* "flight_preferences".
C10_IncompleteFlightFallsThrough ==
    [][(TurnReturned /\ ret'.arg.message \in IncompleteFlight) =>
        LET u == ret'.user
        IN  /\ Parsed[ret'.arg.message].flight_info = NoInfo
            /\ ret'.branch # "flight"
            /\ "flight" \notin
                  ChangedKeys(PlanOf(user_contexts, u),
                              PlanOf(user_contexts', u))
            /\ "flight_preferences" \notin
                  ChangedKeys(PreferencesOf(user_contexts, u),
                              PreferencesOf(user_contexts', u))
    ]_vars

\* a message with a flight keyword and no origin phrase has been answered
\* by the hotel branch
C10_Witness ==
    /\ ret.op = "process_message" /\ ret.raised = None
    /\ ret.arg.message \in IncompleteFlight
    /\ ret.branch = "hotel"

\* C11: a turn whose message holds a flight keyword and says "from X to Y",
\* with no passenger-count phrase and no date phrase, extracts origin X,
\* destination Y, one adult and no dates (the value the flight branch stores
\* as flight_preferences).
C11_FromToExtracted ==
    [][\A p \in FromToPhrases :
        (TurnReturned /\ ret'.arg.message = FromTo(p)) =>
            /\ ret'.branch = "flight"
            /\ "flight_preferences"
                  \in DOMAIN PreferencesOf(user_contexts', ret'.user)
            /\ PreferencesOf(user_contexts', ret'.user)["flight_preferences"]
                  = [origin         |-> p.X,
                     destination    |-> p.Y,
                     departure_date |-> None,
                     return_date    |-> None,
                     adults         |-> 1]
    ]_vars

\* C12: a turn whose message holds a hotel keyword and a location with a
\* parenthesized 3-letter upper-case code takes the hotel branch, merges a
\* "hotel" section with that code into current_plan and replies with the
\* prompt about activities.
C12_ExplicitCityCode ==
    [][\A p \in CodedHotelPhrases :
        (TurnReturned /\ ret'.arg.message = p.message) =>
            LET plan == PlanOf(user_contexts', ret'.user)
            IN  /\ ret'.branch = "hotel"
                /\ "hotel" \in DOMAIN plan
                /\ plan["hotel"].city_code = p.code
                /\ Contains("activities in", ret'.value.reply)
    ]_vars

\* C13: a turn in the hotel branch whose extracted city code is None replies
\* with the request for the 3-letter IATA code and leaves the user's
\* current_plan and preferences as they were.
C13_NoCodeNoWrite ==
    [][(/\ TurnReturned
        /\ ret'.branch = "hotel"
        /\ ~Truthy(Parsed[ret'.arg.message].hotel_info.city_code)) =>
            LET u == ret'.user
            IN  /\ Contains("Could you provide the 3-letter IATA code",
                            ret'.value.reply)
                /\ PlanOf(user_contexts', u) = PlanOf(user_contexts, u)
                /\ PreferencesOf(user_contexts', u)
                      = PreferencesOf(user_contexts, u)
    ]_vars

\* a hotel request without a code has been answered for a user who already
\* has a plan
C13_Witness ==
    /\ ret.op = "process_message" /\ ret.raised = None
    /\ ret.branch = "hotel"
    /\ ~Truthy(Parsed[ret.arg.message].hotel_info.city_code)
    /\ Contains("3-letter IATA code", ret.value.reply)
    /\ "flight" \in DOMAIN PlanOf(user_contexts, ret.user)
    /\ "hotel" \notin DOMAIN PlanOf(user_contexts, ret.user)

\* C14: _get_country_code returns "US" for "usa", "america" and "united
\* states" in any letter case and None for every name that is not in the
\* table; a turn in the city branch whose country is not in the table replies
\* with the request for the 2-letter code and writes no "city_search"
\* section.
C14_CountryCode ==
    [][/\ Returned("_get_country_code") =>
            LET name == ret'.arg.country_name
                code == ret'.value.country_code
            IN  /\ name \in UnitedStatesNames => code = "US"
                /\ name \in UnlistedNames => code = None
       /\ (/\ TurnReturned
           /\ ret'.branch = "city"
           /\ Parsed[ret'.arg.message].city_info.country
                 \notin DOMAIN country_mapping) =>
            /\ Contains("Could you provide the 2-letter ISO code",
                        ret'.value.reply)
            /\ "city_search" \notin
                  ChangedKeys(PlanOf(user_contexts, ret'.user),
                              PlanOf(user_contexts', ret'.user))
    ]_vars

\* a city request for an unlisted country has been answered for a user whose
\* plan holds a "city_search" section from an earlier turn
C14_Witness ==
    /\ ret.op = "process_message" /\ ret.raised = None
    /\ ret.branch = "city"
    /\ Parsed[ret.arg.message].city_info.country = "wakanda"
    /\ Contains("2-letter ISO code", ret.value.reply)
    /\ "city_search" \in DOMAIN PlanOf(user_contexts, ret.user)
    /\ PlanOf(user_contexts, ret.user)["city_search"].country_code = "US"

\* the words that open the lines of the three sections of a summary
SectionOpenings ==
    [flight     |-> "Flight: From ",
     hotel      |-> "Accommodation: Hotels in ",
     activities |-> "Activities: Exploring attractions in "]

SectionOrder == <<"flight", "hotel", "activities">>

\* C15: a turn in the plan branch returns the "not enough information" reply
\* when current_plan is empty; otherwise its summary holds the line of a
\* section exactly when the section is in current_plan, flight before hotel
\* before activities; the turn leaves current_plan as it was.
C15_PlanSummary ==
    [][(TurnReturned /\ ret'.branch = "plan") =>
        LET plan  == PlanOf(user_contexts, ret'.user)
            reply == ret'.value.reply
        IN  /\ PlanOf(user_contexts', ret'.user) = plan
            /\ DOMAIN plan = {} => reply = NotEnoughInformation
            /\ DOMAIN plan # {} =>
                /\ StartsWith("Here's a summary of your tour plan", reply)
                /\ \A k \in DOMAIN SectionOpenings :
                        Contains(SectionOpenings[k], reply)
                            <=> k \in DOMAIN plan
                /\ \A i, j \in DOMAIN SectionOrder :
                        (/\ i < j
                         /\ SectionOrder[i] \in DOMAIN plan
                         /\ SectionOrder[j] \in DOMAIN plan) =>
                            FirstIndex(SectionOpenings[SectionOrder[i]], reply)
                              < FirstIndex(SectionOpenings[SectionOrder[j]],
                                           reply)
    ]_vars

\* a summary has been returned for a plan that holds a flight section only
C15_Witness ==
    /\ ret.op = "process_message" /\ ret.raised = None
    /\ ret.branch = "plan"
    /\ DOMAIN PlanOf(user_contexts, ret.user) = {"flight"}
    /\ Contains(SectionOpenings.flight, ret.value.reply)
    /\ ~Contains(SectionOpenings.hotel, ret.value.reply)
    /\ ~Contains(SectionOpenings.activities, ret.value.reply)

\* C16: a turn in the greeting branch replies with the first-time greeting
\* when the context holds fewer than 3 messages once the inbound message is
\* stored, and with the "greeting again" text when it holds 3 or more; the
\* first-time text is given only when the context held no message of the
\* user before the turn.
C16_Greeting ==
    [][(TurnReturned /\ ret'.branch = "greeting") =>
        LET before == Len(MessagesOf(user_contexts, ret'.user))
            reply  == ret'.value.reply
        IN  /\ before + 1 < 3  => reply = FirstGreeting
            /\ before + 1 >= 3 => reply = GreetingAgain
            /\ reply = FirstGreeting => before = 0
    ]_vars

\* a greeting has been answered with the "greeting again" text
C16_Witness ==
    /\ ret.op = "process_message" /\ ret.raised = None
    /\ ret.branch = "greeting"
    /\ ret.value.reply = GreetingAgain
    /\ Len(MessagesOf(user_contexts, ret.user)) >= 4

\* the gateway's text is a decodable document: an object that holds a
\* summary and an itinerary
WellFormed(content) ==
    /\ content # None
    /\ Strip(content) \in DOMAIN JsonDocuments
    /\ JsonDocuments[Strip(content)].t = "object"
    /\ {"summary", "itinerary"} \subseteq DOMAIN JsonDocuments[Strip(content)].v

\* the gateway's text is no document at all
NotStructured(content) ==
    content = None \/ Strip(content) \notin DOMAIN JsonDocuments

\* the keys under which the routes read a total cost from an enhanced plan
CostKeys == {"estimated_total_cost", "total_estimated_cost"}

\* a gateway call was made on a constructed service and the gateway answered
Answered(op) ==
    /\ ret.op = op
    /\ wire # <<>>
    /\ ret.arg.completion.raised = None

\* C17: when the gateway answers enhance_tour_plan with a well-formed
\* document, the call returns the plan it was given with every section it
\* had kept, and with a summary, an itinerary and a total-cost figure added.
C17_EnhanceAugments ==
    (Answered("enhance_tour_plan")
        /\ WellFormed(ret.arg.completion.content)) =>
        /\ ret.raised = None
        /\ \A k \in DOMAIN ret.arg.plan :
                /\ k \in DOMAIN ret.value.value
                /\ ret.value.value[k] = ret.arg.plan[k]
        /\ {"summary", "itinerary"} \subseteq DOMAIN ret.value.value
        /\ CostKeys \cap DOMAIN ret.value.value # {}

\* C18: when the gateway answers enhance_tour_plan with a text that is no
\* document, the call ends with the "Failed to parse LLM response" exception,
\* returns no plan, and the plan it was given holds no summary and no
\* itinerary afterwards.
C18_ParseFailure ==
    (Answered("enhance_tour_plan")
        /\ NotStructured(ret.arg.completion.content)) =>
        /\ ret.raised = FailedToParseEnhanced
        /\ ret.value.value = None
        /\ DOMAIN ret.value.plan \cap {"summary", "itinerary"} = {}

\* C19: when GROQ_API_KEY is missing from the environment, the free-text
\* extraction returns a value to its caller (a degraded indicator) and does
\* not raise.
C19_DegradedNotRaised ==
    (ret.op = "process_natural_language"
        /\ ~Truthy(getenv(environ, "GROQ_API_KEY"))) =>
        /\ ret.raised = None
        /\ ret.value # NoValue

LookupOps == {"search_hotels_by_city", "search_activities"}

\* the requests of the last call that went out with a method
Sent(method) == SelectSeq(wire, LAMBDA q : q.method = method)

\* the provider's answer is a failure of the transport or of a 4xx or 5xx
\* status other than "not found"
Failure(response) ==
    \/ response.error # None
    \/ response.status_code >= 400 /\ response.status_code # 404

\* the token request of the last call failed
TokenFailed ==
    /\ Sent("POST") # <<>>
    /\ \/ ret.arg.token_response.error # None
       \/ ret.arg.token_response.status_code # 200

\* C20: a hotel or activity lookup sends the token request at most once and
\* the lookup request at most once; when the token request fails it raises
\* and sends no lookup request; when the lookup request is answered with 404
\* it returns an empty list, with 200 and a decodable body the body's data
\* list (empty when the body has none), and when the answer is any other
\* transport or status failure it raises.
C20_LookupOutcomes ==
    ret.op \in LookupOps =>
        /\ Len(Sent("POST")) <= 1
        /\ Len(Sent("GET")) <= 1
        /\ Len(wire) = Len(Sent("POST")) + Len(Sent("GET"))
        /\ TokenFailed => ret.raised # None /\ Sent("GET") = <<>>
        /\ Sent("GET") # <<>> =>
            /\ (ret.arg.response.error = None
                    /\ ret.arg.response.status_code = 404) =>
                    ret.raised = None /\ ret.value.result = <<>>
            /\ (ret.arg.response.error = None
                    /\ ret.arg.response.status_code = 200
                    /\ ret.arg.response.json # NoJson) =>
                    /\ ret.raised = None
                    /\ ret.value.result
                         = Get(ret.arg.response.json, "data", <<>>)
            /\ Failure(ret.arg.response) => ret.raised # None

\* a hotel lookup answered with 404 under a cached token has returned
C20_Witness ==
    /\ ret.op = "search_hotels_by_city"
    /\ Sent("POST") = <<>>
    /\ Len(Sent("GET")) = 1
    /\ ret.arg.response.error = None
    /\ ret.arg.response.status_code = 404
    /\ ret.raised = None
    /\ ret.value.result = <<>>

\* the plan_data of the last request decodes to a mapping that holds the key
HasKey(key) ==
    /\ ret.arg.plan_data \in DOMAIN JsonDocuments
    /\ JsonDocuments[ret.arg.plan_data].t = "object"
    /\ key \in DOMAIN JsonDocuments[ret.arg.plan_data].v

\* the route generate_tour_plan_from_string ran on a constructed service
RouteRan ==
    /\ ret.op = "generate_tour_plan_from_string"
    /\ Truthy(getenv(environ, "GROQ_API_KEY"))

\* C21: generate_tour_plan_from_string ends in a failure and sends nothing
\* to the gateway when the decoded plan_data holds neither a "flight" nor a
\* "budget" key; when it holds one of them, enhance_tour_plan is called with
\* the plan and its request goes to the gateway.
C21_FlightOrBudgetRequired ==
    RouteRan =>
        /\ (/\ ret.arg.plan_data \in DOMAIN JsonDocuments
            /\ ~HasKey("flight") /\ ~HasKey("budget")) =>
                ret.raised # None /\ wire = <<>>
        /\ (HasKey("flight") \/ HasKey("budget")) =>
                /\ ret.value.handed
                /\ Len(wire) = 1
                /\ wire[1].about
                    = EnhancePrompt(JsonDocuments[ret.arg.plan_data].v)

\* a plan that holds a hotel section only has been rejected
C21_Witness ==
    /\ RouteRan
    /\ ret.arg.plan_data = HotelDocument
    /\ ret.raised = FlightOrBudgetRequired
    /\ ~ret.value.handed
    /\ wire = <<>>

\* C22: after every store operation and every turn other than
\* clear_expired_contexts, each user that had a context still has one and the
\* messages it held are a prefix of the messages it holds; and every context
\* is stored under its own user_id.
C22_AppendOnly ==
    [][calls' = calls + 1 =>
        /\ ret'.op # "clear_expired_contexts" =>
              \A k \in Keys(user_contexts) :
                  /\ k \in Keys(user_contexts')
                  /\ IsPrefix(MessagesOf(user_contexts, k),
                              MessagesOf(user_contexts', k))
        /\ \A i \in DOMAIN user_contexts' :
              user_contexts'[i].value.user_id = user_contexts'[i].key
    ]_vars

\* a message has been appended to a list that held a different one
C22_Witness ==
    /\ ret.op = "add_message"
    /\ Len(MessagesOf(user_contexts, ret.user)) >= 2
    /\ MessagesOf(user_contexts, ret.user)[1]
         # MessagesOf(user_contexts, ret.user)[2]
    /\ Lookup(user_contexts, ret.user).user_id = ret.user

FlightNoted == "I've noted your flight search from "

\* C23: a turn in the flight branch sets preferences["flight_preferences"]
\* to the extracted parameters, whatever the key held, and leaves the other
\* preferences; sets the "flight" section of current_plan to the origin,
\* destination, departure_date, return_date and adults extracted, None dates
\* included; and replies with the origin and destination and the question
\* about hotels at the destination.
C23_FlightStored ==
    [][(TurnReturned /\ ret'.branch = "flight") =>
        LET info == Parsed[ret'.arg.message].flight_info
            old  == PreferencesOf(user_contexts, ret'.user)
            new  == PreferencesOf(user_contexts', ret'.user)
            plan == PlanOf(user_contexts', ret'.user)
        IN  /\ DOMAIN new = DOMAIN old \cup {"flight_preferences"}
            /\ new["flight_preferences"] = info
            /\ \A k \in DOMAIN old \ {"flight_preferences"} : new[k] = old[k]
            /\ "flight" \in DOMAIN plan
            /\ DOMAIN plan["flight"] =
                  {"origin", "destination", "departure_date", "return_date",
                   "adults"}
            /\ \A f \in DOMAIN plan["flight"] : plan["flight"][f] = info[f]
            /\ StartsWith(FlightNoted \o info.origin \o " to "
                            \o info.destination \o ". ", ret'.value.reply)
            /\ Contains("Would you like to search for hotels in "
                            \o info.destination \o " as well?",
                        ret'.value.reply)
    ]_vars

\* a second flight turn of a user has replaced the parameters of the first,
\* and its dates are None
C23_Witness ==
    /\ ret.op = "process_message" /\ ret.raised = None
    /\ ret.branch = "flight"
    /\ Len(MessagesOf(user_contexts, ret.user)) = 4
    /\ StartsWith(FlightNoted, MessagesOf(user_contexts, ret.user)[2].content)
    /\ MessagesOf(user_contexts, ret.user)[1].content # ret.arg.message
    /\ PreferencesOf(user_contexts, ret.user)["flight_preferences"]
         = Parsed[ret.arg.message].flight_info
    /\ PlanOf(user_contexts, ret.user)["flight"].departure_date = None
    /\ PlanOf(user_contexts, ret.user)["flight"].return_date = None

\* C24: a turn in the city branch whose country resolves to a code asks what
\* kind of cities the user wants and leaves current_plan as it was when no
\* keyword was extracted; otherwise it sets the "city_search" section to the
\* country, its code and the keyword, leaves the other sections, and
\* acknowledges the keyword and the country.
C24_CitySearch ==
    [][(/\ TurnReturned /\ ret'.branch = "city"
        /\ Truthy(_get_country_code(Parsed[ret'.arg.message].city_info.country)))
       =>
        LET info == Parsed[ret'.arg.message].city_info
            old  == PlanOf(user_contexts, ret'.user)
            new  == PlanOf(user_contexts', ret'.user)
        IN  IF info.keyword = None
            THEN /\ new = old
                 /\ ret'.value.reply =
                       "What kind of cities are you looking for in "
                       \o info.country \o "?"
            ELSE /\ DOMAIN new = DOMAIN old \cup {"city_search"}
                 /\ new["city_search"] =
                       [country      |-> info.country,
                        country_code |-> _get_country_code(info.country),
                        keyword      |-> info.keyword]
                 /\ \A k \in DOMAIN old \ {"city_search"} : new[k] = old[k]
                 /\ StartsWith("I've noted your interest in cities like '"
                                 \o info.keyword \o "' in " \o info.country
                                 \o ". ", ret'.value.reply)
    ]_vars

\* a city turn without a keyword has been asked for one, after an earlier
\* turn of the user stored a city_search section
C24_Witness ==
    /\ ret.op = "process_message" /\ ret.raised = None
    /\ ret.branch = "city"
    /\ Parsed[ret.arg.message].city_info.keyword = None
    /\ ret.value.reply = "What kind of cities are you looking for in france?"
    /\ "city_search" \in DOMAIN PlanOf(user_contexts, ret.user)

WriteOps ==
    {"add_message", "store_search_result", "update_preferences",
     "update_current_plan"}

ReadOps == {"get_user_context", "get_conversation_history", "get_current_plan"}

Buckets == {"flights", "hotels", "cities", "activities"}

\* the search history a user holds, the four empty buckets when the user
\* has no context yet
SearchHistoryOf(uc, u) ==
    IF u \in Keys(uc) THEN Lookup(uc, u).search_history
    ELSE UserContext(u).search_history

\* C26: each of add_message, store_search_result, update_preferences and
\* update_current_plan leaves the user's last_interaction at the time of the
\* call; get_user_context, get_conversation_history and get_current_plan on
\* a user that has a context leave last_interaction as it was; and
\* store_search_result with a type outside the four buckets leaves the
\* search history as it was, with no bucket added.
C26_LastInteraction ==
    [][calls' = calls + 1 =>
        /\ ret'.op \in WriteOps =>
              Lookup(user_contexts', ret'.user).last_interaction = now
        /\ (ret'.op \in ReadOps /\ ret'.user \in Keys(user_contexts)) =>
              Lookup(user_contexts', ret'.user).last_interaction
                = Lookup(user_contexts, ret'.user).last_interaction
        /\ (ret'.op = "store_search_result"
                /\ ret'.arg.search_type \notin Buckets) =>
              /\ SearchHistoryOf(user_contexts', ret'.user)
                    = SearchHistoryOf(user_contexts, ret'.user)
              /\ DOMAIN SearchHistoryOf(user_contexts', ret'.user) = Buckets
    ]_vars

\* a result of a type outside the four buckets has been stored for a user
\* whose context was older than the call and held a result
C26_Witness ==
    /\ ret.op = "store_search_result"
    /\ ret.arg.search_type \notin Buckets
    /\ now > ImportTime
    /\ Lookup(user_contexts, ret.user).last_interaction = now
    /\ Lookup(user_contexts, ret.user).search_history["flights"] # <<>>

\* C27: a context that get_user_context creates for a user who had none
\* carries the time of that call as its last_interaction (so that a sweep
\* within expiry_time of the creation keeps it).
C27_CreatedNow ==
    [][(/\ calls' = calls + 1
        /\ ret'.op = "get_user_context"
        /\ ret'.user \notin Keys(user_contexts)) =>
            Lookup(user_contexts', ret'.user).last_interaction = now
    ]_vars

\* C28: get_conversation_history with a limit of zero or more returns the
\* last min(limit, n) of the user's n messages in arrival order, none for
\* a limit of zero, and leaves the stored history as it was.
C28_LastMessages ==
    [][Returned("get_conversation_history") =>
        LET h     == ret'.value.history
            msgs  == MessagesOf(user_contexts, ret'.user)
            n     == Len(msgs)
            limit == ret'.arg.limit
            k     == IF limit < n THEN limit ELSE n
        IN  /\ limit >= 0
            /\ h = SubSeq(msgs, n - k + 1, n)
            /\ Len(h) <= limit
            /\ MessagesOf(user_contexts', ret'.user) = msgs
    ]_vars

\* no turn and no sweep is in progress
BetweenTurns ==
    /\ sweep.pc = "idle"
    /\ \A k \in Threads : turns[k].pc = "idle"

\* user, assistant, user, assistant, ...
Alternating(messages) ==
    /\ Len(messages) % 2 = 0
    /\ \A i \in DOMAIN messages :
          messages[i].role = IF i % 2 = 1 THEN "user" ELSE "assistant"

\* C29: between turns, whatever turns and sweeps have completed and however
\* their steps were interleaved, the history of every user that has a
\* context has even length and its roles alternate user, assistant, ...;
\* and the turn that returns leaves its message and the reply it returns as
\* the last two entries of the user's history.
C29_Alternation ==
    /\ [](BetweenTurns =>
            \A u \in Keys(user_contexts) :
                Alternating(MessagesOf(user_contexts, u)))
    /\ [][(\/ TurnReturned
           \/ \E k \in Threads :
                turns[k].pc = "respond" /\ turns'[k].pc = "idle") =>
            LET msgs == MessagesOf(user_contexts', ret'.user)
                n    == Len(msgs)
            IN  /\ n >= 2
                /\ msgs[n - 1].role = "user"
                /\ msgs[n - 1].content = ret'.arg.message
                /\ msgs[n].role = "assistant"
                /\ msgs[n].content = ret'.value.reply
       ]_vars

\* C30: GET /hotels/search answers a city code that holds a character that
\* is no letter with status 400 and the detail "City code must contain only
\* letters"; it answers with the provider service's own 400 "Invalid city
\* code provided" when the service raised that; and it answers 500 only
\* when the failure was neither of the two.
C30_ValidationStatus ==
    ret.op = "search_hotels" =>
        /\ ~isalpha(ret.arg.city_code) => ret.raised = OnlyLetters
        /\ (/\ isalpha(ret.arg.city_code)
            /\ ret.value.service
                 = "HTTPException(400): Invalid city code provided") =>
                ret.raised = ret.value.service
        /\ ret.raised = ErrorSearchingHotels =>
              /\ isalpha(ret.arg.city_code)
              /\ ret.value.service
                   # "HTTPException(400): Invalid city code provided"

====
